---- MODULE Spec2Model ----
(***************************************************************************)
(* A model of the shape detector of frontend/src/utils/ShapeDetector.js:   *)
(* the ShapeDetector object (threshold, minArea), its detectShapes method  *)
(* (grayscale + mask, 4-neighbour flood fill, boundary tracing, Douglas-   *)
(* Peucker, convex hull, colinear clean-up, classification, confidence)    *)
(* and the utility functions of the file.                                  *)
(*                                                                         *)
(* Specifications.  Spec: a new detector and its first detectShapes call   *)
(* on an image.  SpecCalls: several calls on one detector, on changing     *)
(* images.  SpecDP, SpecConf and SpecHull: direct calls of douglasPeucker, *)
(* of computeConfidence and of convexHull on arguments of their own.       *)
(* SpecClassify: direct calls of classifyShape of the detector of          *)
(* shape-detection-export/src/utils/ShapeDetector.js.  SpecLabel: one      *)
(* detectShapes call taken a pixel at a time through its labeling pass.    *)
(* SpecOrder and SpecColinear: direct calls of orderBoundary and of        *)
(* removeColinear.  SpecUI: the ShapeDetection component of                *)
(* shape-detection-export/src/components/ShapeDetection.jsx and the events *)
(* of its file readers and images.                                         *)
(*                                                                         *)
(* Numbers.  Pixel coordinates, areas, cross products and squared          *)
(* distances are integers and are modelled exactly.  The JavaScript code   *)
(* computes the remaining quantities in IEEE doubles; the model decides    *)
(* every comparison the code makes on them by an integer inequality that   *)
(* is equivalent over the reals (squares instead of square roots, cosines  *)
(* instead of angles), and carries the three quantities that are only      *)
(* reported or boosted (perimeter, circularity, confidence) in fixed       *)
(* point: perimeter in 1/100 pixel, circularity in 1/1000, confidence in   *)
(* 1/10000.  Two distances that are equal over the reals need not be equal *)
(* as doubles: detectShapes is modelled with the outcome of equal doubles, *)
(* which is the outcome of double arithmetic on every image of Images;     *)
(* the direct calls of douglasPeucker take every outcome.                  *)
(***************************************************************************)
EXTENDS Integers, Sequences, FiniteSets, TLC

VARIABLES
    threshold,  \* this.threshold of the detector
    minArea,    \* this.minArea of the detector
    image,      \* the ImageData the caller holds: [width, height, data]
    outcome,    \* of the last detectShapes call: "none", "returned" or "threw"
    result,     \* the value the last call resolved to, NoResult if none
    history,    \* an earlier call the caller remembers, NoHistory if none
    call,       \* the arguments of a direct call of a utility function
    ret,        \* what that call returned, NoReturn before it returns
    pass,       \* the locals of a labeling pass in progress, NoPass if none
    ui          \* the state of the ShapeDetection component, NoUI if none

vars == <<threshold, minArea, image, outcome, result, history, call, ret, pass, ui>>

(***************************************************************************)
(* Program constants.                                                      *)
(***************************************************************************)
DefaultThreshold == 128
DefaultMinArea == 28
MinContour == 6
MinEpsilon == 4
ColinearTolDeg == 6

NoResult == [none |-> TRUE]
NoHistory == [none |-> TRUE]
NoCall == [fn |-> "none"]
NoReturn == [returned |-> FALSE]
NoPass == [phase |-> "none"]
NoUI == [mounted |-> FALSE]

Min(a, b) == IF a < b THEN a ELSE b
Max(a, b) == IF a > b THEN a ELSE b
Abs(a) == IF a < 0 THEN -a ELSE a

Pt(px, py) == [x |-> px, y |-> py]

(***************************************************************************)
(* Step 1 of detectShapes: grayscale and binary mask.                      *)
(***************************************************************************)

\* data[i] of a typed array, 0-based; reading past the end yields undefined
Undefined == -1
ByteAt(data, i) == IF i < Len(data) THEN data[i + 1] ELSE Undefined

\* The grey levels v for which the double sum 0.299*v + 0.587*v + 0.114*v
\* comes out just below v (its exact value), so that | 0 yields v - 1.
GreyFallsShort ==
    {1, 2, 4, 8, 11, 13, 16, 22, 26, 27, 32, 39, 44, 51, 52, 54, 57, 59, 61, 64,
     78, 81, 88, 91, 95, 101, 102, 104, 108, 114, 115, 118, 122, 127, 128, 143,
     149, 156, 157, 162, 169, 175, 176, 182, 183, 190, 195, 202, 203, 204, 208,
     209, 216, 223, 225, 228, 230, 235, 236, 239, 241, 244, 249, 251, 254}

\* (0.299 * r + 0.587 * g + 0.114 * b) | 0.  An undefined operand makes the
\* sum NaN, and NaN | 0 is 0.  The double sum differs from the exact one by
\* far less than 1/1000, so truncation differs from the exact floor only
\* where the exact sum is an integer; which way it falls there is tabulated
\* for the grey pixels (r = g = b), the only pixels with an integral sum
\* that the model paints.
Luma(r, g, b) ==
    IF r = Undefined \/ g = Undefined \/ b = Undefined THEN 0
    ELSE LET exact == 299 * r + 587 * g + 114 * b
         IN  IF r = g /\ g = b /\ r \in GreyFallsShort
             THEN exact \div 1000 - 1
             ELSE exact \div 1000

\* a mask that also takes the pixels at exactly the threshold as foreground
MaskOfInclusive(n, data, thr) ==
    [p \in 0..(n - 1) |->
        IF 4 * p < Len(data)
        THEN IF Luma(ByteAt(data, 4 * p), ByteAt(data, 4 * p + 1),
                     ByteAt(data, 4 * p + 2)) <= thr THEN 1 ELSE 0
        ELSE 0]

\* The loop of lines 20-24 over data, writing mask[p]; a write at p >= n is
\* dropped by the typed array, an entry never written stays 0.
MaskOf(n, data, thr) ==
    [p \in 0..(n - 1) |->
        IF 4 * p < Len(data)
        THEN IF Luma(ByteAt(data, 4 * p), ByteAt(data, 4 * p + 1),
                     ByteAt(data, 4 * p + 2)) < thr THEN 1 ELSE 0
        ELSE 0]

(***************************************************************************)
(* Loops.  A loop of the code is modelled by its body, as an operator on   *)
(* the loop's variables, applied by a ...Run operator as often as the loop *)
(* iterates.  Run halves the iteration count instead of counting down and  *)
(* tests the loop condition first, so that the evaluation nests only       *)
(* logarithmically deep.                                                   *)
(***************************************************************************)

\* the elements of a set of integers in ascending order
Ascending(S) ==
    [k \in 1..Cardinality(S) |-> CHOOSE i \in S : Cardinality({j \in S : j < i}) = k - 1]

\* the points at the indices idxs, in index order
Pick(points, idxs) ==
    LET order == Ascending(idxs) IN [k \in 1..Len(order) |-> points[order[k]]]

SetMin(S) == CHOOSE m \in S : \A o \in S : m <= o
SetMax(S) == CHOOSE m \in S : \A o \in S : m >= o

RECURSIVE SumRange(_, _, _)
\* s[lo] + ... + s[hi]
SumRange(s, lo, hi) ==
    IF lo > hi THEN 0
    ELSE IF lo = hi THEN s[lo]
    ELSE SumRange(s, lo, (lo + hi) \div 2) + SumRange(s, (lo + hi) \div 2 + 1, hi)

(***************************************************************************)
(* Step 2: connected components by flood fill with an explicit stack.      *)
(***************************************************************************)

\* a fill whose extrema start at the origin instead of at the seed
NewFillFromOrigin(idx, x, y, seen) ==
    [stack |-> <<idx>>, seen |-> seen \cup {idx}, pixels |-> <<>>, area |-> 0,
     minX |-> 0, minY |-> 0, maxX |-> x, maxY |-> y]

\* The locals of one flood fill (lines 35-39) with the seed pushed.
NewFill(idx, x, y, seen) ==
    [stack |-> <<idx>>, seen |-> seen \cup {idx}, pixels |-> <<>>, area |-> 0,
     minX |-> x, minY |-> y, maxX |-> x, maxY |-> y]

\* a fill that also follows the four diagonal neighbours
PushOrderDiagonal(cur, width, height) ==
    LET cx == cur % width
        cy == cur \div width
    IN  (IF cx > 0 THEN <<cur - 1>> ELSE <<>>) \o
        (IF cx < width - 1 THEN <<cur + 1>> ELSE <<>>) \o
        (IF cy > 0 THEN <<cur - width>> ELSE <<>>) \o
        (IF cy < height - 1 THEN <<cur + width>> ELSE <<>>) \o
        (IF cx > 0 /\ cy > 0 THEN <<cur - width - 1>> ELSE <<>>) \o
        (IF cx < width - 1 /\ cy > 0 THEN <<cur - width + 1>> ELSE <<>>) \o
        (IF cx > 0 /\ cy < height - 1 THEN <<cur + width - 1>> ELSE <<>>) \o
        (IF cx < width - 1 /\ cy < height - 1 THEN <<cur + width + 1>> ELSE <<>>)

\* The neighbours examined for pixel cur, in the order of lines 52-64.
PushOrder(cur, width, height) ==
    LET cx == cur % width
        cy == cur \div width
    IN  (IF cx > 0 THEN <<cur - 1>> ELSE <<>>) \o
        (IF cx < width - 1 THEN <<cur + 1>> ELSE <<>>) \o
        (IF cy > 0 THEN <<cur - width>> ELSE <<>>) \o
        (IF cy < height - 1 THEN <<cur + width>> ELSE <<>>)

\* if (!seen[n] && mask[n] === 1)
Pushes(mask, seen, n) == n \notin seen /\ mask[n] = 1

RECURSIVE PushAll(_, _, _, _, _)
\* Pushes each not yet seen foreground index of cand[k..], marking it seen.
PushAll(cand, k, mask, stack, seen) ==
    IF k > Len(cand) THEN [stack |-> stack, seen |-> seen]
    ELSE IF Pushes(mask, seen, cand[k])
         THEN PushAll(cand, k + 1, mask, Append(stack, cand[k]), seen \cup {cand[k]})
         ELSE PushAll(cand, k + 1, mask, stack, seen)

\* One iteration of the while (stack.length) loop, lines 41-64.
FloodStep(mask, width, height, f) ==
    LET cur == f.stack[Len(f.stack)]
        cx == cur % width
        cy == cur \div width
        p == PushAll(PushOrder(cur, width, height), 1, mask,
                     SubSeq(f.stack, 1, Len(f.stack) - 1), f.seen)
    IN  [stack |-> p.stack, seen |-> p.seen,
         pixels |-> Append(f.pixels, Pt(cx, cy)),
         area |-> f.area + 1,
         minX |-> Min(f.minX, cx), minY |-> Min(f.minY, cy),
         maxX |-> Max(f.maxX, cx), maxY |-> Max(f.maxY, cy)]

RECURSIVE FloodRun(_, _, _, _, _)
\* Up to n iterations of the while (stack.length) loop of lines 40-65.
FloodRun(mask, width, height, f, n) ==
    IF f.stack = <<>> \/ n <= 0 THEN f
    ELSE IF n = 1 THEN FloodStep(mask, width, height, f)
    ELSE FloodRun(mask, width, height,
                  FloodRun(mask, width, height, f, n \div 2), n - n \div 2)

\* The loop runs until the stack is empty: every index is pushed at most
\* once, so width * height iterations empty it.
Flood(mask, width, height, f) == FloodRun(mask, width, height, f, width * height)

(***************************************************************************)
(* _traceBoundary and orderBoundary.                                       *)
(***************************************************************************)

\* A foreground pixel with a 4-neighbour that is background or outside.
IsBoundary(mask, width, height, x, y) ==
    LET idx == y * width + x
        left == IF x > 0 THEN mask[idx - 1] ELSE 0
        right == IF x < width - 1 THEN mask[idx + 1] ELSE 0
        up == IF y > 0 THEN mask[idx - width] ELSE 0
        down == IF y < height - 1 THEN mask[idx + width] ELSE 0
    IN  mask[idx] = 1 /\ (left = 0 \/ right = 0 \/ up = 0 \/ down = 0)

\* The two nested loops of lines 151-163: the boundary pixels of the
\* bounding box, row by row, that is by ascending y * width + x.
BoundaryScan(mask, width, height, minX, minY, maxX, maxY) ==
    LET found == {y * width + x : x \in minX..maxX, y \in minY..maxY}
        order == Ascending({i \in found :
                              IsBoundary(mask, width, height, i % width, i \div width)})
    IN  [k \in 1..Len(order) |-> Pt(order[k] % width, order[k] \div width)]

Dist2(a, b) == (a.x - b.x) * (a.x - b.x) + (a.y - b.y) * (a.y - b.y)

\* The inner loop with d <= bestDist: the last unused index of least squared
\* distance to cur.
NearestUnusedLast(points, used, cur) ==
    LET free == (1..Len(points)) \ used
    IN  IF free = {} THEN -1
        ELSE CHOOSE i \in free :
                \A j \in free :
                    \/ Dist2(points[i], cur) < Dist2(points[j], cur)
                    \/ Dist2(points[i], cur) = Dist2(points[j], cur) /\ i >= j

\* The inner loop of lines 183-192: the first unused index of least squared
\* distance to cur (d < bestDist is strict), -1 if every index is used.
NearestUnused(points, used, cur) ==
    LET free == (1..Len(points)) \ used
    IN  IF free = {} THEN -1
        ELSE CHOOSE i \in free :
                \A j \in free :
                    \/ Dist2(points[i], cur) < Dist2(points[j], cur)
                    \/ Dist2(points[i], cur) = Dist2(points[j], cur) /\ i <= j

\* One iteration of the loop of lines 179-196 (o.done once it has broken off).
OrderStep(points, o) ==
    LET best == NearestUnused(points, o.used, o.out[Len(o.out)])
    IN  IF o.done \/ best = -1 THEN [used |-> o.used, out |-> o.out, done |-> TRUE]
        ELSE [used |-> o.used \cup {best}, out |-> Append(o.out, points[best]),
              done |-> FALSE]

RECURSIVE OrderRun(_, _, _)
OrderRun(points, o, n) ==
    IF o.done \/ n <= 0 THEN o
    ELSE IF n = 1 THEN OrderStep(points, o)
    ELSE OrderRun(points, OrderRun(points, o, n \div 2), n - n \div 2)

orderBoundary(points) ==
    IF Len(points) = 0 THEN <<>>
    ELSE OrderRun(points, [used |-> {1}, out |-> <<points[1]>>, done |-> FALSE],
                  Len(points) - 1).out

traceBoundary(mask, width, height, minX, minY, maxX, maxY) ==
    orderBoundary(BoundaryScan(mask, width, height, minX, minY, maxX, maxY))

(***************************************************************************)
(* polygonPerimeter, in 1/100 pixel.                                       *)
(***************************************************************************)

RECURSIVE SqrtSearch(_, _, _)
\* The largest r in lo..hi with r * r <= n.
SqrtSearch(n, lo, hi) ==
    IF lo >= hi THEN lo
    ELSE LET mid == (lo + hi + 1) \div 2
         IN  IF mid * mid <= n THEN SqrtSearch(n, mid, hi) ELSE SqrtSearch(n, lo, mid - 1)

\* floor(100 * sqrt(d2)) for a squared distance d2
HypotCenti(d2) == SqrtSearch(d2 * 10000, 0, 100 * d2)

\* the sum of the lengths of the edges points[i] -> points[(i + 1) % n]
polygonPerimeter(points) ==
    SumRange([i \in 1..Len(points) |->
                 HypotCenti(Dist2(points[i], points[(i % Len(points)) + 1]))],
             1, Len(points))

(***************************************************************************)
(* douglasPeucker(points, epsilon), epsilon in 1/100 pixel.                *)
(***************************************************************************)

cross(o, a, b) == (a.x - o.x) * (b.y - o.y) - (a.y - o.y) * (b.x - o.x)

\* perpendicularDistance(pt, a, b) as the pair <<num, den>> with
\* distance^2 = num / den: the distance to the line through a and b, or to
\* the point a when a = b.
PerpDist2(pt, a, b) ==
    IF a.x = b.x /\ a.y = b.y THEN <<Dist2(pt, a), 1>>
    ELSE <<cross(a, b, pt) * cross(a, b, pt), Dist2(a, b)>>

\* the numerator of the squared distance of points[k] from the chord i..j;
\* the distances of one range share the denominator
ChordNum(points, i, j, k) == PerpDist2(points[k], points[i], points[j])[1]

\* the points of i+1..j-1 off the chord at the least distance from it
NearestOffChord(points, i, j) ==
    LET off == {k \in (i + 1)..(j - 1) : ChordNum(points, i, j, k) > 0}
    IN  {k \in off : \A m \in off : ChordNum(points, i, j, k) <= ChordNum(points, i, j, m)}

\* The points of i+1..j-1 at the largest distance from the chord, none when
\* no point lies off the chord (maxDist starts at 0 and d > maxDist is
\* strict).
Farthest(points, i, j) ==
    LET off == {k \in (i + 1)..(j - 1) : ChordNum(points, i, j, k) > 0}
    IN  {k \in off : \A m \in off : ChordNum(points, i, j, k) >= ChordNum(points, i, j, m)}

\* The loop of lines 260-263: <<index, maxDist^2 numerator>>, index -1 when
\* no point lies off the chord.  Among points at exactly the same distance
\* the strict d > maxDist leaves the first one, provided their doubles are
\* equal too.
FarthestFrom(points, i, j) ==
    LET far == Farthest(points, i, j)
    IN  IF far = {} THEN <<-1, 0>>
        ELSE <<SetMin(far), ChordNum(points, i, j, SetMin(far))>>

\* a comparison that also lets a distance equal to epsilon through
ExceedsOrMeets(num, den, epsC) == num > 0 /\ num * 10000 >= epsC * epsC * den

\* a comparison against an epsilon one pixel too large
ExceedsByAPixel(num, den, epsC) == num * 10000 > (epsC + 100) * (epsC + 100) * den

\* maxDist > epsilon, with maxDist^2 = num / den and epsilon = epsC / 100
ExceedsEpsilon(num, den, epsC) == num * 10000 > epsC * epsC * den

\* One iteration of the while (stack.length > 0) loop of lines 256-269; keep
\* is the set of kept indices, stack the sequence of index ranges.
SimplifyStep(points, epsC, d) ==
    LET top == d.stack[Len(d.stack)]
        i == top[1]
        j == top[2]
        rest == SubSeq(d.stack, 1, Len(d.stack) - 1)
        far == FarthestFrom(points, i, j)
        den == PerpDist2(points[i], points[i], points[j])[2]
    IN  IF ExceedsEpsilon(far[2], den, epsC)
        THEN [stack |-> rest \o <<(<<i, far[1]>>), (<<far[1], j>>)>>,
              keep |-> d.keep \cup {far[1]}]
        ELSE [stack |-> rest, keep |-> d.keep]

RECURSIVE SimplifyRun(_, _, _, _)
SimplifyRun(points, epsC, d, n) ==
    IF d.stack = <<>> \/ n <= 0 THEN d
    ELSE IF n = 1 THEN SimplifyStep(points, epsC, d)
    ELSE SimplifyRun(points, epsC, SimplifyRun(points, epsC, d, n \div 2), n - n \div 2)

\* Every split keeps one more index, so the loop pops at most
\* 2 * points.length ranges.
douglasPeucker(points, epsC) ==
    IF Len(points) < 3 THEN points
    ELSE Pick(points,
              SimplifyRun(points, epsC,
                          [stack |-> <<(<<1, Len(points)>>)>>, keep |-> {1, Len(points)}],
                          2 * Len(points)).keep)

RECURSIVE Splits(_, _, _, _)
\* The sets of indices the loop can mark between i and j.  Where several
\* points lie at exactly the same largest distance, rounding in
\* perpendicularDistance (Math.hypot is implementation-approximated) decides
\* which of their doubles is the larger: any of them can be the one kept.
Splits(points, epsC, i, j) ==
    LET far == Farthest(points, i, j)
        den == PerpDist2(points[i], points[i], points[j])[2]
    IN  IF far = {} THEN {{}}
        ELSE IF ~ExceedsEpsilon(ChordNum(points, i, j, SetMin(far)), den, epsC) THEN {{}}
        ELSE UNION {{({m} \cup A) \cup B : A \in Splits(points, epsC, i, m),
                                           B \in Splits(points, epsC, m, j)} : m \in far}

\* the keep array without keep[last] = true of line 242
douglasPeuckerKeepsOpenEnd(points, epsC) ==
    IF Len(points) < 3 THEN {1..Len(points)}
    ELSE {{1} \cup K : K \in Splits(points, epsC, 1, Len(points))}

\* every set of indices that douglasPeucker(points, epsilon) can return the
\* points of: the indices marked in keep (lines 240-242 and 265) at line
\* 272, or every index for the copy of line 237
douglasPeuckerKeeps(points, epsC) ==
    IF Len(points) < 3 THEN {1..Len(points)}
    ELSE {{1, Len(points)} \cup K : K \in Splits(points, epsC, 1, Len(points))}

(***************************************************************************)
(* convexHull (monotone chain).                                            *)
(***************************************************************************)

\* The comparator of line 282: by x, then by y.
Before(a, b) == a.x < b.x \/ (a.x = b.x /\ a.y < b.y)

\* points.slice().sort(comparator): a stable sort, every point at the rank
\* given by the points that go before it
SortPoints(points) ==
    LET n == Len(points)
        rank(i) == Cardinality({j \in 1..n : \/ Before(points[j], points[i])
                                             \/ (~Before(points[i], points[j]) /\ j < i)})
    IN  [k \in 1..n |-> points[CHOOSE i \in 1..n : rank(i) = k - 1]]

\* a loop that pops right turns only and keeps a point on a straight line
PopRightOnly(chain, p) ==
    SubSeq(chain, 1,
           SetMax({m \in 0..Len(chain) :
                     m < 2 \/ cross(chain[m - 1], chain[m], p) >= 0}))

\* while (chain.length >= 2 && cross(...) <= 0) chain.pop(): the chain is cut
\* back to the longest prefix that p extends by a strict left turn
PopNonLeft(chain, p) ==
    SubSeq(chain, 1,
           SetMax({m \in 0..Len(chain) :
                     m < 2 \/ cross(chain[m - 1], chain[m], p) > 0}))

\* one iteration of a chain loop (lines 284-287, 289-293): pops, then push
ChainStep(pts, c) ==
    [i |-> c.i + 1, chain |-> Append(PopNonLeft(c.chain, pts[c.i]), pts[c.i])]

RECURSIVE ChainRun(_, _, _)
ChainRun(pts, c, n) ==
    IF c.i > Len(pts) \/ n <= 0 THEN c
    ELSE IF n = 1 THEN ChainStep(pts, c)
    ELSE ChainRun(pts, ChainRun(pts, c, n \div 2), n - n \div 2)

\* the chain built over all of pts, in order
BuildChain(pts) == ChainRun(pts, [i |-> 1, chain |-> <<>>], Len(pts)).chain

Reverse(s) == [i \in 1..Len(s) |-> s[Len(s) + 1 - i]]

\* a hull that keeps the end of each chain, which starts the other chain
convexHullClosed(points) ==
    IF Len(points) <= 1 THEN points
    ELSE LET pts == SortPoints(points)
         IN  BuildChain(pts) \o BuildChain(Reverse(pts))

convexHull(points) ==
    IF Len(points) <= 1 THEN points
    ELSE LET pts == SortPoints(points)
             lower == BuildChain(pts)
             upper == BuildChain(Reverse(pts))
         IN  SubSeq(lower, 1, Len(lower) - 1) \o SubSeq(upper, 1, Len(upper) - 1)

(***************************************************************************)
(* removeColinear(points, 6).                                              *)
(***************************************************************************)

\* cos^2(6 degrees) = 0.98907380..., as the fraction 181/183 = 0.98907104:
\* no quotient dot^2 / (n1^2 * n2^2) of integer vectors with coordinates up
\* to 30 lies between the two.
Cos2TolNum == 181
Cos2TolDen == 183

\* Math.abs(Math.PI - ang) > tol at vertex cur: the angle between the
\* vectors to prev and next is below 180 - 6 degrees, that is its cosine is
\* above -cos(6 degrees).  A zero vector has its norm replaced by 1 and
\* gives dot = 0.
KeepsVertex(prev, cur, next) ==
    LET v1x == prev.x - cur.x
        v1y == prev.y - cur.y
        v2x == next.x - cur.x
        v2y == next.y - cur.y
        dot == v1x * v2x + v1y * v2y
        n1sq == v1x * v1x + v1y * v1y
        n2sq == v2x * v2x + v2y * v2y
    IN  dot >= 0 \/ dot * dot * Cos2TolDen < Cos2TolNum * n1sq * n2sq

\* the loop of lines 304-319: the vertices pushed to res
ColinearLoop(points) ==
    LET n == Len(points)
    IN  Pick(points, {i \in 1..n : KeepsVertex(points[((i - 2 + n) % n) + 1], points[i],
                                               points[(i % n) + 1])})

\* line 320 with res.length >= 2
ColinearResultFromTwo(points, res) == IF Len(res) >= 2 THEN res ELSE points

\* line 320: the filtered list if it has at least 3 points, else the input
ColinearResult(points, res) == IF Len(res) >= 3 THEN res ELSE points

removeColinear(points) ==
    IF Len(points) <= 3 THEN points
    ELSE ColinearResult(points, ColinearLoop(points))

(***************************************************************************)
(* centroidFromPixels and computeConfidence.                               *)
(***************************************************************************)

Xs(points) == [i \in 1..Len(points) |-> points[i].x]
Ys(points) == [i \in 1..Len(points) |-> points[i].y]

\* Math.floor(s / n)
FloorDiv(s, n) == s \div n

\* Math.round(s / n) for s >= 0, n > 0: halves round up
RoundDiv(s, n) == (2 * s + n) \div (2 * n)

centroidFromPixels(pixels) ==
    IF Len(pixels) = 0 THEN Pt(0, 0)
    ELSE Pt(RoundDiv(SumRange(Xs(pixels), 1, Len(pixels)), Len(pixels)),
            RoundDiv(SumRange(Ys(pixels), 1, Len(pixels)), Len(pixels)))

\* 1000 * 10^(k/10) for k = 0..9, rounded up
DecadeTenths == <<1000, 1259, 1585, 1996, 2512, 3163, 3982, 5012, 6310, 7944>>

RECURSIVE Log10Tenths(_, _)
\* floor(10 * log10(a)) + 10 * d for a >= 1: a is scaled into 1000..9999
Log10Tenths(a, d) ==
    IF a < 1000 THEN Log10Tenths(a * 10, d - 1)
    ELSE IF a >= 10000 THEN Log10Tenths(a \div 10, d + 1)
    ELSE 10 * d + Cardinality({k \in 1..10 : DecadeTenths[k] <= a}) - 1

\* the base value of lines 223-227, in 1/10000
ConfidenceBase(type) ==
    IF type = "polygon" THEN 6500
    ELSE IF type = "circle" THEN 9300
    ELSE IF type \in {"square", "rectangle"} THEN 8800
    ELSE IF type = "triangle" THEN 9000
    ELSE 5000

\* Math.min(0.15, Math.max(0, (circularity - 0.4) * 0.5)), circularity in 1/1000
CircBoost(circularity) == Min(1500, Max(0, (circularity - 400) * 5))

\* Math.min(0.2, Math.log10(Math.max(10, area)) * 0.03), log10 cut to 1/10
SizeBoost(area) == Min(2000, Log10Tenths(Max(10, area), 3) * 30)

\* a clamp without the upper limit
ClampBelowOnly(v) == Max(1200, v)

\* line 231: Math.max(0.12, Math.min(0.99, v))
ClampConfidence(v) == Max(1200, Min(9900, v))

computeConfidence(type, vCount, circularity, area, perimeter) ==
    ClampConfidence(ConfidenceBase(type) + CircBoost(circularity) + SizeBoost(area))

(***************************************************************************)
(* detectShapes.                                                           *)
(***************************************************************************)

\* a bounding box one pixel too wide and too high
BoxOfWide(f) ==
    [x |-> f.minX, y |-> f.minY,
     width |-> f.maxX - f.minX + 2, height |-> f.maxY - f.minY + 2]

\* line 74: the bounding box of a filled component
BoxOf(f) ==
    [x |-> f.minX, y |-> f.minY,
     width |-> f.maxX - f.minX + 1, height |-> f.maxY - f.minY + 1]

\* a check that drops a component of exactly minArea pixels
PromoteAbove(mask, width, height, f, minA) ==
    IF f.area > minA
    THEN <<[pixels |-> f.pixels,
            contour |-> traceBoundary(mask, width, height, f.minX, f.minY, f.maxX, f.maxY),
            area |-> f.area,
            boundingBox |-> BoxOf(f)]>>
    ELSE <<>>

\* lines 67-76: a filled component is kept when its area reaches minArea
Promote(mask, width, height, f, minA) ==
    IF f.area >= minA
    THEN <<[pixels |-> f.pixels,
            contour |-> traceBoundary(mask, width, height, f.minX, f.minY, f.maxX, f.maxY),
            area |-> f.area,
            boundingBox |-> BoxOf(f)]>>
    ELSE <<>>

\* a scan that puts each new component in front of those found before
ScanStepNewestFirst(mask, width, height, minA, s) ==
    IF mask[s.idx] = 1 /\ s.idx \notin s.seen
    THEN LET f == Flood(mask, width, height,
                        NewFill(s.idx, s.idx % width, s.idx \div width, s.seen))
         IN  [idx |-> s.idx + 1, seen |-> f.seen,
              shapes |-> Promote(mask, width, height, f, minA) \o s.shapes]
    ELSE [idx |-> s.idx + 1, seen |-> s.seen, shapes |-> s.shapes]

\* One iteration of the loops of lines 30-79, at s.idx = y * width + x.
ScanStep(mask, width, height, minA, s) ==
    IF mask[s.idx] = 1 /\ s.idx \notin s.seen
    THEN LET f == Flood(mask, width, height,
                        NewFill(s.idx, s.idx % width, s.idx \div width, s.seen))
         IN  [idx |-> s.idx + 1, seen |-> f.seen,
              shapes |-> s.shapes \o Promote(mask, width, height, f, minA)]
    ELSE [idx |-> s.idx + 1, seen |-> s.seen, shapes |-> s.shapes]

RECURSIVE ScanRun(_, _, _, _, _, _)
ScanRun(mask, width, height, minA, s, n) ==
    IF s.idx >= width * height \/ n <= 0 THEN s
    ELSE IF n = 1 THEN ScanStep(mask, width, height, minA, s)
    ELSE ScanRun(mask, width, height, minA,
                 ScanRun(mask, width, height, minA, s, n \div 2), n - n \div 2)

\* The row-major loops of lines 30-79: the components kept, in scan order.
Scan(mask, width, height, minA) ==
    ScanRun(mask, width, height, minA, [idx |-> 0, seen |-> {}, shapes |-> <<>>],
            width * height).shapes

\* Math.max(4, 0.02 * perimeter), in 1/100 pixel
Epsilon(perimeter) == Max(100 * MinEpsilon, perimeter \div 50)

\* (4 * Math.PI * area) / (perimeter * perimeter) in 1/1000, 0 for no perimeter
Circularity(area, perimeter) ==
    IF perimeter > 0 THEN (12566 * area * 100) \div ((perimeter * perimeter) \div 100)
    ELSE 0

\* Math.abs(w / h - 1) < 0.12
NearlySquare(w, h) == 100 * Abs(w - h) < 12 * h

\* maxX - minX || 1
Extent(coords) ==
    LET d == SetMax({coords[i] : i \in 1..Len(coords)})
             - SetMin({coords[i] : i \in 1..Len(coords)})
    IN  IF d = 0 THEN 1 ELSE d

\* a decision that tries the circle test first
ClassifyCircleFirst(hullClean, circularity) ==
    IF circularity > 700 THEN "circle"
    ELSE IF Len(hullClean) = 3 THEN "triangle"
    ELSE IF Len(hullClean) = 4
         THEN IF NearlySquare(Extent(Xs(hullClean)), Extent(Ys(hullClean)))
              THEN "square" ELSE "rectangle"
         ELSE "polygon"

\* lines 100-120
Classify(hullClean, circularity) ==
    IF Len(hullClean) = 3 THEN "triangle"
    ELSE IF Len(hullClean) = 4
         THEN IF NearlySquare(Extent(Xs(hullClean)), Extent(Ys(hullClean)))
              THEN "square" ELSE "rectangle"
         ELSE IF circularity > 700 THEN "circle"
         ELSE "polygon"

\* lines 84-87: the contours that step 3 analyses
Analysed(s) == Len(s.contour) >= MinContour

\* lines 89-134 for one component s
Analyse(s) ==
    LET perimeter == polygonPerimeter(s.contour)
        eps == Epsilon(perimeter)
        approx == douglasPeucker(s.contour, eps)
        approxClean == removeColinear(approx)
        hull == convexHull(approxClean)
        hullClean == removeColinear(hull)
        circularity == Circularity(s.area, perimeter)
        type == Classify(hullClean, circularity)
    IN  [type |-> type,
         vertices |-> hullClean,
         rawVertices |-> approx,
         center |-> centroidFromPixels(s.pixels),
         area |-> s.area,
         boundingBox |-> s.boundingBox,
         confidence |-> computeConfidence(type, Len(hullClean), circularity,
                                          s.area, perimeter)]

\* the loop of lines 83-135 over the kept components
AnalyseAll(shapes) ==
    LET kept == Pick(shapes, {i \in 1..Len(shapes) : Analysed(shapes[i])})
    IN  [k \in 1..Len(kept) |-> Analyse(kept[k])]

\* new Uint8Array(width * height) throws a RangeError for a negative length
Throws(img) == img.width * img.height < 0

\* the shapes list of a call that returns
OutShapes(img, thr, minA) ==
    LET n == img.width * img.height
        mask == MaskOf(n, img.data, thr)
    IN  IF img.width <= 0 \/ img.height <= 0 THEN <<>>
        ELSE AnalyseAll(Scan(mask, img.width, img.height, minA))

(***************************************************************************)
(* The images the caller may hold.                                         *)
(***************************************************************************)
MaxDim == 8     \* side of the square canvas
MaxExtra == 1   \* a line is at most DefaultMinArea + MaxExtra pixels long
MaxCut == 5     \* bytes missing from, or added to, a malformed buffer

\* colours as <<r, g, b>>; luminance 0, 255, 127 (below the default
\* threshold) and 128 (exactly the default threshold)
Black == <<0, 0, 0>>
White == <<255, 255, 255>>
Dim == <<128, 128, 128>>
Edge == <<129, 128, 128>>
Palette == {Black, White, Dim, Edge}

\* An RGBA buffer of W x H opaque pixels: colour fg at the pixel indices in
\* dark, colour bg at the others.
Paint(W, H, dark, fg, bg) ==
    [width |-> W, height |-> H,
     data |-> [i \in 1..(4 * W * H) |->
                 IF (i - 1) % 4 = 3 THEN 255
                 ELSE IF ((i - 1) \div 4) \in dark THEN fg[((i - 1) % 4) + 1]
                      ELSE bg[((i - 1) % 4) + 1]]]

RectPixels(W, x0, y0, rw, rh) ==
    {y * W + x : x \in x0..(x0 + rw - 1), y \in y0..(y0 + rh - 1)}

\* one filled black rectangle anywhere on a white MaxDim x MaxDim canvas
RectImages ==
    {Paint(MaxDim, MaxDim, RectPixels(MaxDim, r[1], r[2], r[3], r[4]), Black, White) :
        r \in {q \in (0..(MaxDim - 1)) \X (0..(MaxDim - 1)) \X (1..MaxDim) \X (1..MaxDim) :
                 q[1] + q[3] <= MaxDim /\ q[2] + q[4] <= MaxDim}}

\* a one-pixel-thick black line of about DefaultMinArea pixels, filling a
\* one-row image or lying inside a white margin
LineImages ==
    UNION {{Paint(len, 1, RectPixels(len, 0, 0, len, 1), Black, White),
            Paint(len + 2, 3, RectPixels(len + 2, 1, 1, len, 1), Black, White),
            Paint(1, len, RectPixels(1, 0, 0, 1, len), Black, White)} :
           len \in (DefaultMinArea - 1)..(DefaultMinArea + MaxExtra)}

\* two black rectangles on a white canvas two squares wide: one in the top
\* left corner, one to its right, next to it (gap 0) or one column away
PairWidth == 2 * MaxDim
PairImages ==
    {Paint(PairWidth, MaxDim,
           RectPixels(PairWidth, 0, 0, q[1], q[2])
             \cup RectPixels(PairWidth, q[1] + q[3], q[4], q[5], MaxDim - q[4]),
           Black, White) :
        q \in (1..(MaxDim - 1)) \X {MaxDim \div 2, MaxDim} \X {0, 1}
                \X {0, MaxDim \div 2} \X {1, MaxDim - 1, MaxDim}}

\* three black rectangles on the wide canvas: one at the left edge from row
\* ya down, one in the right half from row yb down, and between them a
\* block of b x b pixels, too small to be reported, from row 0
TripleImages ==
    {Paint(PairWidth, MaxDim,
           (RectPixels(PairWidth, 0, q[1], MaxDim \div 2, MaxDim - q[1])
              \cup RectPixels(PairWidth, (MaxDim \div 2) + 1, 0, q[3], q[3]))
             \cup RectPixels(PairWidth, MaxDim, q[2], MaxDim \div 2, MaxDim - q[2]),
           Black, White) :
        q \in {0, 1} \X {0, 1} \X {1, 2}}

\* an L of two arms, a columns wide and 2 rows high, along the left and the
\* top edge of the canvas, and a block of 2 x 2 pixels in the angle between
\* the arms: touching an arm (d = 0) or away from it (d > 0)
NotchImages ==
    {Paint(MaxDim, MaxDim,
           (RectPixels(MaxDim, 0, 0, q[1], MaxDim) \cup RectPixels(MaxDim, 0, 0, MaxDim, 2))
             \cup RectPixels(MaxDim, q[1] + q[2], 2 + q[3], 2, 2),
           Black, White) :
        q \in {2, 3} \X {0, 1, 2} \X {0, 1, 2}}

\* two rectangles that meet at one corner only, along either diagonal
DiagonalImages ==
    UNION {{Paint(MaxDim, MaxDim,
                  RectPixels(MaxDim, 0, 0, q[1], q[2])
                    \cup RectPixels(MaxDim, q[1], q[2], MaxDim - q[1], MaxDim - q[2]),
                  Black, White),
            Paint(MaxDim, MaxDim,
                  RectPixels(MaxDim, q[1], 0, MaxDim - q[1], q[2])
                    \cup RectPixels(MaxDim, 0, q[2], q[1], MaxDim - q[2]),
                  Black, White)} :
           q \in {1, MaxDim \div 2} \X {1, MaxDim \div 2}}

\* a centred square of one colour on a canvas of another, and plain images
ToneImages ==
    {Paint(MaxDim, MaxDim, RectPixels(MaxDim, 1, 1, MaxDim - 2, MaxDim - 2), fg, bg) :
        fg \in Palette, bg \in Palette}
PlainImages ==
    {Paint(W, H, {}, bg, bg) : W \in 1..MaxDim, H \in 1..MaxDim, bg \in {White, Edge}}

\* ImageData guarantees data.length = 4 * width * height with both positive
WellFormed(img) ==
    img.width > 0 /\ img.height > 0 /\ Len(img.data) = 4 * img.width * img.height

\* objects that are not ImageData: a buffer with bytes missing or added, or
\* dimensions that are zero or negative
Zeros(n) == [i \in 1..n |-> 0]
Malformations(img) ==
    {[img EXCEPT !.data = SubSeq(img.data, 1, Len(img.data) - k)] : k \in 1..MaxCut}
      \cup {[img EXCEPT !.data = img.data \o Zeros(k)] : k \in 1..MaxCut}
      \cup {[img EXCEPT !.data = <<>>]}
      \cup {[img EXCEPT !.width = w, !.height = h] :
                w \in {0, -img.width, img.width},
                h \in {0, -img.height, img.height}}
MalformedImages ==
    {m \in UNION {Malformations(img) : img \in {Paint(MaxDim, MaxDim, {}, Black, Black),
                                                   Paint(MaxDim, MaxDim, {}, White, White)}} :
        ~WellFormed(m)}

Images ==
    RectImages \cup LineImages \cup PairImages \cup TripleImages \cup NotchImages
      \cup DiagonalImages \cup ToneImages \cup PlainImages \cup MalformedImages

(***************************************************************************)
(* The state machine: one detector, the caller's image, the calls.         *)
(***************************************************************************)
MaxTime == 1    \* processingTime is 0..MaxTime milliseconds

\* after new ShapeDetector(), with an image at hand
Init ==
    /\ threshold = DefaultThreshold
    /\ minArea = DefaultMinArea
    /\ image \in Images
    /\ outcome = "none"
    /\ result = NoResult
    /\ history = NoHistory
    /\ call = NoCall
    /\ ret = NoReturn
    /\ pass = NoPass
    /\ ui = NoUI

\* a detector that adapts its threshold to the first pixel of the image
ThresholdFromCorner(img, thr) ==
    Luma(ByteAt(img.data, 0), ByteAt(img.data, 1), ByteAt(img.data, 2))

\* detectShapes reads this.threshold and this.minArea and assigns neither
ThresholdAfter(img, thr) == thr

\* a pass that writes the mask back into the buffer it reads: every pixel
\* below the threshold black, every other white
ImageThresholded(img, thr) ==
    [img EXCEPT !.data =
        [i \in 1..Len(img.data) |->
            IF (i - 1) % 4 = 3 THEN img.data[i]
            ELSE LET p == (i - 1) \div 4
                 IN  IF Luma(ByteAt(img.data, 4 * p), ByteAt(img.data, 4 * p + 1),
                             ByteAt(img.data, 4 * p + 2)) < thr
                     THEN 0 ELSE 255]]

\* the buffer after a call: lines 16-24 read width, height and data[i];
\* every write of the call goes to mask, seen, stack, pixels, shapes and
\* outShapes, which it allocates itself
ImageAfter(img, thr) == img

\* await detector.detectShapes(image): the whole call.  A call on another
\* image than the remembered one is noted in history.
DetectShapes ==
    /\ call = NoCall
    /\ IF Throws(image)
       THEN /\ outcome' = "threw"
            /\ result' = NoResult
            /\ threshold' = threshold
       ELSE LET shapes == OutShapes(image, threshold, minArea)
            IN  /\ outcome' = "returned"
                /\ threshold' = ThresholdAfter(image, threshold)
                /\ \E t \in 0..MaxTime :
                     result' = [shapes |-> shapes, processingTime |-> t]
    /\ history' = IF history # NoHistory /\ history.image # image
                  THEN [history EXCEPT !.between = TRUE]
                  ELSE history
    /\ image' = ImageAfter(image, threshold)
    /\ UNCHANGED <<minArea, call, ret, pass, ui>>

\* the first call on a new detector; calls that follow others are the
\* subject of SpecCalls below
FirstCall == outcome = "none" /\ DetectShapes

Next == FirstCall

Spec == Init /\ [][Next]_vars

(***************************************************************************)
(* Properties of a call, stated on the image and on the value returned.    *)
(***************************************************************************)
Returned == outcome = "returned"

\* the pixel positions of an image, p = y * width + x
Pixels(img) == 0..(img.width * img.height - 1)
XOf(p, W) == p % W
YOf(p, W) == p \div W

\* the grey value of pixel p and the pixels darker than the threshold
Intensity(img, p) ==
    Luma(ByteAt(img.data, 4 * p), ByteAt(img.data, 4 * p + 1), ByteAt(img.data, 4 * p + 2))
Foreground(img, thr) == {p \in Pixels(img) : Intensity(img, p) < thr}

\* the positions next to p, left, right, above and below, inside the image
Nbrs(p, W, H) ==
    {q \in {p - 1, p + 1, p - W, p + W} :
        /\ q >= 0 /\ q < W * H
        /\ (YOf(q, W) = YOf(p, W) \/ XOf(q, W) = XOf(p, W))}

RECURSIVE Grow(_, _, _, _, _)
\* the pixels of F joined to those of S by a chain of neighbours in F
Grow(F, W, H, S, frontier) ==
    IF frontier = {} THEN S
    ELSE LET new == (F \cap UNION {Nbrs(p, W, H) : p \in frontier}) \ S
         IN  Grow(F, W, H, S \cup new, new)

RECURSIVE ComponentsOf(_, _, _)
\* the maximal 4-connected subsets of F
ComponentsOf(F, W, H) ==
    IF F = {} THEN {}
    ELSE LET first == SetMin(F)
             comp == Grow(F, W, H, {first}, {first})
         IN  {comp} \cup ComponentsOf(F \ comp, W, H)

BoxAround(C, W) ==
    LET xs == {XOf(p, W) : p \in C}
        ys == {YOf(p, W) : p \in C}
    IN  [x |-> SetMin(xs), y |-> SetMin(ys),
         width |-> SetMax(xs) - SetMin(xs) + 1,
         height |-> SetMax(ys) - SetMin(ys) + 1]

\* the mean position of the pixels of C, rounded
MeanOf(C, W) ==
    LET box == BoxAround(C, W)
        colSum == [k \in 1..box.width |->
                     (box.x + k - 1) * Cardinality({p \in C : XOf(p, W) = box.x + k - 1})]
        rowSum == [k \in 1..box.height |->
                     (box.y + k - 1) * Cardinality({p \in C : YOf(p, W) = box.y + k - 1})]
    IN  Pt(RoundDiv(SumRange(colSum, 1, box.width), Cardinality(C)),
           RoundDiv(SumRange(rowSum, 1, box.height), Cardinality(C)))

\* the foreground pixels inside the bounding box of C that have a
\* background pixel or the image border next to them
BoundaryIn(F, C, W, H) ==
    LET box == BoxAround(C, W)
    IN  {p \in F :
            /\ XOf(p, W) >= box.x /\ XOf(p, W) < box.x + box.width
            /\ YOf(p, W) >= box.y /\ YOf(p, W) < box.y + box.height
            /\ (Cardinality(Nbrs(p, W, H)) < 4 \/ Nbrs(p, W, H) \ F # {})}

\* the components that are large enough and have enough boundary
Qualifying(img, thr, minA) ==
    LET F == Foreground(img, thr)
    IN  {C \in ComponentsOf(F, img.width, img.height) :
            /\ Cardinality(C) >= minA
            /\ Cardinality(BoundaryIn(F, C, img.width, img.height)) >= MinContour}

\* shape s reports component C
Reports(s, C, W) ==
    /\ s.area = Cardinality(C)
    /\ s.boundingBox = BoxAround(C, W)
    /\ s.center = MeanOf(C, W)

OneToOne(shapes, Q, W) ==
    /\ Len(shapes) = Cardinality(Q)
    /\ \E f \in [1..Len(shapes) -> Q] :
         /\ \A i, j \in 1..Len(shapes) : i # j => f[i] # f[j]
         /\ \A i \in 1..Len(shapes) : Reports(shapes[i], f[i], W)

\* C1: a call with an image whose data length differs from
\* width * height * 4, or whose width or height is not positive, ends in an
\* error and yields no result at all.
C1_MalformedInputFails ==
    (outcome # "none" /\ ~WellFormed(image)) => (outcome = "threw" /\ result = NoResult)

\* C2: every shape returned has a vertices list of at least 3 vertices.
C2_AtLeastThreeVertices ==
    Returned => \A i \in 1..Len(result.shapes) : Len(result.shapes[i].vertices) >= 3

\* C3: the call on an image returns, and the shapes returned correspond
\* one-to-one to the maximal 4-connected foreground components that have at
\* least minArea pixels and at least 6 boundary points; the other components
\* yield no shape and no error.
C3_ShapesAreTheLargeComponents ==
    (outcome # "none" /\ WellFormed(image)) =>
        /\ Returned
        /\ OneToOne(result.shapes, Qualifying(image, threshold, minArea), image.width)

\* a call returned one shape for an image with two components, one of them
\* smaller than minArea
C3_Witness ==
    /\ Returned /\ WellFormed(image)
    /\ Len(result.shapes) = 1
    /\ LET comps == ComponentsOf(Foreground(image, threshold), image.width, image.height)
       IN  /\ Cardinality(comps) = 2
           /\ \E C \in comps : Cardinality(C) < minArea
           /\ \E C \in comps : Cardinality(C) = minArea

InImage(pt, img) ==
    pt.x >= 0 /\ pt.x < img.width /\ pt.y >= 0 /\ pt.y < img.height

BoxInImage(box, img) ==
    /\ box.x >= 0 /\ box.y >= 0
    /\ box.x + box.width <= img.width
    /\ box.y + box.height <= img.height

\* C4: every coordinate of every returned shape lies inside the image: the
\* center and every vertex have 0 <= x < width and 0 <= y < height, and the
\* bounding box starts at or after 0 and ends at or before width and height.
C4_CoordinatesInsideImage ==
    Returned =>
        \A i \in 1..Len(result.shapes) :
            LET s == result.shapes[i]
            IN  /\ InImage(s.center, image)
                /\ \A k \in 1..Len(s.vertices) : InImage(s.vertices[k], image)
                /\ \A k \in 1..Len(s.rawVertices) : InImage(s.rawVertices[k], image)
                /\ BoxInImage(s.boundingBox, image)

\* a returned shape reaches the right and the bottom edge of the image and
\* has a vertex in the last column and one in the last row
C4_Witness ==
    /\ Returned
    /\ \E i \in 1..Len(result.shapes) :
         LET s == result.shapes[i]
         IN  /\ s.boundingBox.x + s.boundingBox.width = image.width
             /\ s.boundingBox.y + s.boundingBox.height = image.height
             /\ \E k \in 1..Len(s.vertices) : s.vertices[k].x = image.width - 1
             /\ \E k \in 1..Len(s.vertices) : s.vertices[k].y = image.height - 1

AllBackground(img, thr) == \A p \in Pixels(img) : Intensity(img, p) >= thr

IsFilledSquare(F, W) ==
    /\ F # {}
    /\ LET box == BoxAround(F, W)
       IN  /\ box.width = box.height
           /\ F = RectPixels(W, box.x, box.y, box.width, box.height)
SideOf(F, W) == BoxAround(F, W).width

\* C7: for an image whose foreground is exactly one filled axis-aligned
\* S x S square with S * S >= minArea, anywhere in the image, the call
\* returns exactly one shape, of type square, with area S * S and a bounding
\* box whose width and height are within 1 pixel of S.
C7_FilledSquareIsOneSquare ==
    LET F == Foreground(image, threshold)
        S == SideOf(F, image.width)
    IN  (/\ outcome # "none" /\ WellFormed(image)
         /\ IsFilledSquare(F, image.width)
         /\ S * S >= minArea) =>
            /\ Returned
            /\ Len(result.shapes) = 1
            /\ result.shapes[1].type = "square"
            /\ result.shapes[1].area = S * S
            /\ Abs(result.shapes[1].boundingBox.width - S) <= 1
            /\ Abs(result.shapes[1].boundingBox.height - S) <= 1

\* a call returned for the smallest square of at least minArea pixels, away
\* from the image border
C7_Witness ==
    LET F == Foreground(image, threshold)
        S == SideOf(F, image.width)
    IN  /\ Returned /\ WellFormed(image)
        /\ IsFilledSquare(F, image.width)
        /\ S * S >= minArea /\ (S - 1) * (S - 1) < minArea
        /\ BoxAround(F, image.width).x > 0
        /\ BoxAround(F, image.width).y > 0
        /\ Len(result.shapes) = 1

(***************************************************************************)
(* Several calls on one detector.                                          *)
(***************************************************************************)

\* the images of a session: a centred square of any tone on a canvas that
\* is background at the default threshold
SessionImages ==
    {Paint(MaxDim, MaxDim, RectPixels(MaxDim, 1, 1, MaxDim - 2, MaxDim - 2), fg, bg) :
        fg \in Palette, bg \in {White, Edge}}

InitCalls ==
    /\ threshold = DefaultThreshold
    /\ minArea = DefaultMinArea
    /\ image \in SessionImages
    /\ outcome = "none"
    /\ result = NoResult
    /\ history = NoHistory
    /\ call = NoCall
    /\ ret = NoReturn
    /\ pass = NoPass
    /\ ui = NoUI

\* the caller takes up another image; no call has been made on it yet
LoadImage ==
    /\ call = NoCall
    /\ \E img \in SessionImages \ {image} : image' = img
    /\ outcome' = "none"
    /\ result' = NoResult
    /\ UNCHANGED <<threshold, minArea, history, call, ret, pass, ui>>

\* the caller keeps the image and the result of the call that just returned
\* to compare later calls with
Remember ==
    /\ call = NoCall
    /\ outcome = "returned"
    /\ history' = [image |-> image, shapes |-> result.shapes,
                   time |-> result.processingTime, between |-> FALSE]
    /\ UNCHANGED <<threshold, minArea, image, outcome, result, call, ret, pass, ui>>

NextCalls == LoadImage \/ DetectShapes \/ Remember

SpecCalls == InitCalls /\ [][NextCalls]_vars

MaxX == 2       \* the points have x in 0..MaxX
MaxLen == 4     \* a sequence has at most MaxLen points

NoImage == [width |-> 0, height |-> 0, data |-> <<>>]

\* the points lie on two rows, so that a chord has points on it, beside it
\* and at either end
Rows == {0, 1}
Grid == {Pt(px, py) : px \in 0..MaxX, py \in Rows}
PointSeqs == UNION {[1..n -> Grid] : n \in 0..MaxLen}

\* epsilon in 1/100 pixel: none, half a pixel, one, two, and the least value
\* detectShapes passes
EpsValues == {0, 50, 100, 200, 100 * MinEpsilon}

InitDP ==
    /\ threshold = DefaultThreshold
    /\ minArea = DefaultMinArea
    /\ image = NoImage
    /\ outcome = "none"
    /\ result = NoResult
    /\ history = NoHistory
    /\ \E p \in PointSeqs, e \in EpsValues :
         call = [fn |-> "douglasPeucker", points |-> p, epsilon |-> e]
    /\ ret = NoReturn
    /\ pass = NoPass
    /\ ui = NoUI

\* douglasPeucker(call.points, call.epsilon)
CallDouglasPeucker ==
    /\ call.fn = "douglasPeucker"
    /\ ret = NoReturn
    /\ \E K \in douglasPeuckerKeeps(call.points, call.epsilon) :
         ret' = [returned |-> TRUE, value |-> Pick(call.points, K), keep |-> K]
    /\ UNCHANGED <<threshold, minArea, image, outcome, result, history, call, pass, ui>>

NextDP == CallDouglasPeucker

SpecDP == InitDP /\ [][NextDP]_vars

ReturnedDP == call.fn = "douglasPeucker" /\ ret.returned

\* points[k] lies on the line through points[i] and points[j], or on them
\* when the two coincide
OnChord(points, i, j, k) ==
    IF points[i] = points[j] THEN points[k] = points[i]
    ELSE cross(points[i], points[j], points[k]) = 0

Ends(points) == IF Len(points) = 0 THEN {} ELSE {1, Len(points)}

\* out is points without some points other than the first and the last,
\* each of them on the chord between the points kept before and after it
DropsOnlyChordPoints(points, out) ==
    \E K \in SUBSET (1..Len(points)) :
        /\ Ends(points) \subseteq K
        /\ out = Pick(points, K)
        /\ \A k \in (1..Len(points)) \ K :
             OnChord(points, SetMax({m \in K : m < k}), SetMin({m \in K : m > k}), k)

\* C9 as stated: douglasPeucker(points, 0) returns the point sequence
\* unchanged, no point removed, for every input sequence.
C9_ZeroEpsilonReturnsInput ==
    (ReturnedDP /\ call.epsilon = 0) => ret.value = call.points

\* C9, amended: douglasPeucker(points, 0) removes no point that lies off the
\* line through the kept points before and after it; it returns the
\* sequence with the first and the last point kept and only points on such
\* a chord removed, so a sequence without such points comes back unchanged.
C9_ZeroEpsilonDropsOnlyChordPoints ==
    (ReturnedDP /\ call.epsilon = 0) => DropsOnlyChordPoints(call.points, ret.value)

\* a call with epsilon 0 removed a point on a chord and kept a point off the
\* chord between the first and the last point
C9_Witness ==
    /\ ReturnedDP /\ call.epsilon = 0
    /\ Len(ret.value) > 2
    /\ Len(ret.value) < Len(call.points)
    /\ \A i, j \in 1..Len(call.points) : i # j => call.points[i] # call.points[j]

\* the distance of pt from the chord a..b is at most epsilon
WithinEpsilon(pt, a, b, epsC) ==
    IF a = b THEN Dist2(pt, a) * 10000 <= epsC * epsC
    ELSE cross(a, b, pt) * cross(a, b, pt) * 10000 <= epsC * epsC * Dist2(a, b)

AllWithinEpsilon(points, epsC) ==
    \A k \in 1..Len(points) :
        WithinEpsilon(points[k], points[1], points[Len(points)], epsC)

\* C10: douglasPeucker(points, epsilon) with epsilon at least as large as
\* the distance of every point from the chord between the first and the
\* last point returns exactly these two points, for every sequence of at
\* least 2 points.
C10_LargeEpsilonKeepsEndpoints ==
    (ReturnedDP /\ Len(call.points) >= 2 /\ AllWithinEpsilon(call.points, call.epsilon)) =>
        ret.value = <<call.points[1], call.points[Len(call.points)]>>

\* a call returned the two endpoints of a longer sequence with a point
\* exactly epsilon > 0 away from the chord
C10_Witness ==
    /\ ReturnedDP /\ Len(call.points) >= 3
    /\ call.epsilon > 0
    /\ AllWithinEpsilon(call.points, call.epsilon)
    /\ \E k \in 1..Len(call.points) :
         ~WithinEpsilon(call.points[k], call.points[1], call.points[Len(call.points)],
                        call.epsilon - 1)
    /\ ret.value = <<call.points[1], call.points[Len(call.points)]>>

(***************************************************************************)
(* Direct calls of computeConfidence.                                      *)
(***************************************************************************)
MaxCirc == 12       \* circularity is 0..MaxCirc tenths
MaxDecades == 6     \* area is at most 10^MaxDecades
MaxVerts == 5       \* vCount is 0..MaxVerts

Types == {"triangle", "square", "rectangle", "circle", "polygon", "blob"}

RECURSIVE Pow10(_)
Pow10(k) == IF k = 0 THEN 1 ELSE 10 * Pow10(k - 1)

\* areas 1, 3, 10, 30, ... and the default minArea
Areas ==
    {DefaultMinArea} \cup UNION {{Pow10(k), 3 * Pow10(k)} : k \in 0..MaxDecades}

InitConf ==
    /\ threshold = DefaultThreshold
    /\ minArea = DefaultMinArea
    /\ image = NoImage
    /\ outcome = "none"
    /\ result = NoResult
    /\ history = NoHistory
    /\ call \in {[fn |-> "computeConfidence", type |-> t, vCount |-> v,
                  circularity |-> 100 * c, area |-> a, perimeter |-> 100 * v] :
                    t \in Types, v \in 0..MaxVerts, c \in 0..MaxCirc, a \in Areas}
    /\ ret = NoReturn
    /\ pass = NoPass
    /\ ui = NoUI

\* computeConfidence(type, vCount, circularity, area, perimeter)
CallComputeConfidence ==
    /\ call.fn = "computeConfidence"
    /\ ret = NoReturn
    /\ ret' = [returned |-> TRUE,
               value |-> computeConfidence(call.type, call.vCount, call.circularity,
                                           call.area, call.perimeter)]
    /\ UNCHANGED <<threshold, minArea, image, outcome, result, history, call, pass, ui>>

NextConf == CallComputeConfidence

SpecConf == InitConf /\ [][NextConf]_vars

\* C5: the confidence computeConfidence returns is within [0.12, 0.99], for
\* every type, every circularity >= 0 and every area >= 1; it is the
\* confidence of every returned shape.
C5_ConfidenceWithinBounds ==
    (call.fn = "computeConfidence" /\ ret.returned) =>
        (ret.value >= 1200 /\ ret.value <= 9900)

\* a call returned 0.99 for a base and boosts that add up to more
C5_Witness ==
    /\ call.fn = "computeConfidence" /\ ret.returned
    /\ ConfidenceBase(call.type) + CircBoost(call.circularity) + SizeBoost(call.area) > 9900
    /\ ret.value = 9900

(***************************************************************************)
(* SpecHull: convexHull called on its own with every sequence of up to     *)
(* MaxPts points of a small grid, repeated and collinear points included.  *)
(***************************************************************************)

MaxPts == 4

Side == {0, 1, 2}

HullGrid == {Pt(x, y) : x \in Side, y \in Side}

HullInputs == UNION {[1..n -> HullGrid] : n \in 0..MaxPts}

InitHull ==
    /\ threshold = DefaultThreshold
    /\ minArea = DefaultMinArea
    /\ image = NoImage
    /\ outcome = "none"
    /\ result = NoResult
    /\ history = NoHistory
    /\ \E p \in HullInputs : call = [fn |-> "convexHull", points |-> p]
    /\ ret = NoReturn
    /\ pass = NoPass
    /\ ui = NoUI

CallConvexHull ==
    /\ call.fn = "convexHull"
    /\ ~ret.returned
    /\ ret' = [returned |-> TRUE, value |-> convexHull(call.points)]
    /\ UNCHANGED <<threshold, minArea, image, outcome, result, history, call, pass, ui>>

NextHull == CallConvexHull

SpecHull == InitHull /\ [][NextHull]_vars

ReturnedHull == call.fn = "convexHull" /\ ret.returned

PointsOf(s) == {s[i] : i \in 1..Len(s)}

\* vertex i of the closed polygon h, counted cyclically
Vertex(h, i) == h[((i - 1) % Len(h)) + 1]

\* every vertex of h is a strict left turn: its interior angle, walking
\* counter-clockwise, is below 180 degrees
StrictlyConvex(h) ==
    \A i \in 1..Len(h) : cross(Vertex(h, i + Len(h) - 1), h[i], Vertex(h, i + 1)) > 0

\* p is not on the outer side of any edge of h, nor outside the extent of
\* its vertices (which for a polygon of two vertices is their segment, and
\* for one vertex that point)
OnOrInside(h, p) ==
    /\ \A i \in 1..Len(h) : cross(h[i], Vertex(h, i + 1), p) >= 0
    /\ \E a \in PointsOf(h) : a.x <= p.x
    /\ \E a \in PointsOf(h) : a.x >= p.x
    /\ \E a \in PointsOf(h) : a.y <= p.y
    /\ \E a \in PointsOf(h) : a.y >= p.y

\* C11: convexHull(points) returns vertices taken from the input; with three
\* or more of them every vertex is a strict left turn (no reflex and no
\* straight angle); and every input point lies on or inside the polygon,
\* also when input points repeat or are all on one line.
C11_HullIsConvexAndContainsInput ==
    ReturnedHull =>
        /\ PointsOf(ret.value) \subseteq PointsOf(call.points)
        /\ Len(ret.value) >= 3 => StrictlyConvex(ret.value)
        /\ \A p \in PointsOf(call.points) : OnOrInside(ret.value, p)

\* a hull of three vertices returned for four distinct points of which one
\* lies on an edge of the hull
C11_Witness ==
    /\ ReturnedHull
    /\ Len(call.points) = 4
    /\ Len(ret.value) = 3
    /\ Cardinality(PointsOf(call.points)) = 4
    /\ \E p \in PointsOf(call.points) \ PointsOf(ret.value) :
          \E i \in 1..3 : cross(ret.value[i], Vertex(ret.value, i + 1), p) = 0

(***************************************************************************)
(* The value detectShapes resolves to (lines 138-141).                     *)
(***************************************************************************)

\* C12: the result of a call that returns carries, next to shapes and
\* processingTime, the fields imageWidth and imageHeight, equal to the width
\* and the height of the image.
C12_ResultCarriesImageSize ==
    Returned =>
        /\ {"shapes", "processingTime", "imageWidth", "imageHeight"} \subseteq DOMAIN result
        /\ result.imageWidth = image.width
        /\ result.imageHeight = image.height

(***************************************************************************)
(* The order of the shapes list.                                           *)
(***************************************************************************)

\* the first pixel of a component in row-major order: smallest y, then
\* smallest x, that is the smallest y * width + x
FirstPixel(C) == SetMin(C)

\* the components of Q in the order of their first pixels
InScanOrder(Q) ==
    [k \in 1..Cardinality(Q) |->
        CHOOSE C \in Q : Cardinality({D \in Q : FirstPixel(D) < FirstPixel(C)}) = k - 1]

\* C13: the shapes are listed in the order in which the row-major scan
\* meets the first pixel of their components: the i-th shape reports the
\* qualifying component whose first pixel is the i-th in row-major order,
\* whatever rejected components the scan meets before or between them.
C13_ShapesInScanOrder ==
    (Returned /\ WellFormed(image)) =>
        LET Q == InScanOrder(Qualifying(image, threshold, minArea))
        IN  /\ Len(result.shapes) = Len(Q)
            /\ \A i \in 1..Len(Q) : Reports(result.shapes[i], Q[i], image.width)

\* two shapes returned, the first of them lying to the right of the second,
\* for an image in which the scan meets a rejected component before both
C13_Witness ==
    /\ Returned /\ WellFormed(image)
    /\ Len(result.shapes) = 2
    /\ result.shapes[1].boundingBox.x > result.shapes[2].boundingBox.x
    /\ LET F == Foreground(image, threshold)
           comps == ComponentsOf(F, image.width, image.height)
       IN  \E C \in comps :
              /\ Cardinality(C) < minArea
              /\ \A D \in comps \ {C} : FirstPixel(C) < FirstPixel(D)

(***************************************************************************)
(* What a call leaves alone.                                               *)
(***************************************************************************)

classifyShape(vertices, aspectRatio, circularity, boundingBox) ==
    IF circularity > 75 /\ Abs(aspectRatio - 100) < 20
    THEN [type |-> "circle", confidence |-> Min(9500, circularity * 110)]
    ELSE IF vertices >= 3 /\ vertices <= 4
    THEN [type |-> "triangle", confidence |-> 8500]
    ELSE IF vertices = 4 /\ Abs(aspectRatio - 100) < 15
    THEN [type |-> "square", confidence |-> 9000]
    ELSE IF vertices = 4
    THEN [type |-> "rectangle", confidence |-> 8800]
    ELSE IF vertices >= 5
    THEN [type |-> "polygon", confidence |-> 8000]
    ELSE [type |-> "polygon", confidence |-> 5000]

\* aspect ratios and circularities on both sides of the limits 0.15, 0.2 and
\* 0.75, none of them at a distance from 1 that a double rounds across a limit
AspectRatios == {50, 82, 86, 100, 114, 118, 200}
Circularities == {0, 50, 75, 76, 100, 127}

InitClassify ==
    /\ threshold = DefaultThreshold
    /\ minArea = DefaultMinArea
    /\ image = NoImage
    /\ outcome = "none"
    /\ result = NoResult
    /\ history = NoHistory
    /\ \E v \in 0..(MaxVerts + 1), a \in AspectRatios, c \in Circularities :
         call = [fn |-> "classifyShape", vertices |-> v, aspectRatio |-> a,
                 circularity |-> c,
                 boundingBox |-> [x |-> 0, y |-> 0, width |-> a, height |-> 100]]
    /\ ret = NoReturn
    /\ pass = NoPass
    /\ ui = NoUI

CallClassifyShape ==
    /\ call.fn = "classifyShape"
    /\ ~ret.returned
    /\ ret' = [returned |-> TRUE,
               value |-> classifyShape(call.vertices, call.aspectRatio,
                                       call.circularity, call.boundingBox)]
    /\ UNCHANGED <<threshold, minArea, image, outcome, result, history, call, pass, ui>>

NextClassify == CallClassifyShape

SpecClassify == InitClassify /\ [][NextClassify]_vars

\* the circle test of classifyShape
PassesCircleTest(c) == c.circularity > 75 /\ Abs(c.aspectRatio - 100) < 20

\* C15: classifyShape returns, for a contour that fails the circle test and
\* has exactly 4 vertices, square when the aspect ratio is within 0.15 of 1
\* and rectangle otherwise, and it returns triangle only for 3 vertices.
C15_FourVerticesAreSquareOrRectangle ==
    (call.fn = "classifyShape" /\ ret.returned) =>
        /\ (~PassesCircleTest(call) /\ call.vertices = 4) =>
              ret.value.type = IF Abs(call.aspectRatio - 100) < 15
                               THEN "square" ELSE "rectangle"
        /\ ret.value.type = "triangle" => call.vertices = 3

(***************************************************************************)
(* SpecLabel: one detectShapes call taken apart into the iterations of its *)
(* labeling pass.  pass holds the locals of the call: mask, the scan       *)
(* position idx = y * width + x of lines 30-32, seen, the locals of the    *)
(* flood fill and of the orderBoundary call in progress, shapes, and the   *)
(* perimeter and circularity of each analysed component.  found and pushed record, for the properties   *)
(* below, every component filled so far and every index pushed on the      *)
(* stack so far.  The call is synchronous: once started, each iteration    *)
(* follows the one before it, which is the fairness of SpecLabel.          *)
(***************************************************************************)

NoFill == [stack |-> <<>>]
NoOrder == [done |-> TRUE]

\* one black rectangle in the top left corner of the canvas
CornerImages ==
    {Paint(MaxDim, MaxDim, RectPixels(MaxDim, 0, 0, w, h), Black, White) :
        w \in 1..MaxDim, h \in 1..MaxDim}

\* img with the alpha byte of every pixel set to a
WithAlpha(img, a) ==
    [img EXCEPT !.data = [i \in 1..Len(img.data) |->
                            IF (i - 1) % 4 = 3 THEN a ELSE img.data[i]]]

\* a centred grey square, one grey level on either side of the default
\* threshold, on a white canvas, opaque or fully transparent
GreyImages ==
    {WithAlpha(Paint(MaxDim, MaxDim, RectPixels(MaxDim, 1, 1, MaxDim - 2, MaxDim - 2),
                     fg, White), a) :
        fg \in {Dim, Edge}, a \in {0, 255}}

LabelImages ==
    NotchImages \cup DiagonalImages \cup TripleImages \cup CornerImages \cup GreyImages
      \cup {Paint(MaxDim, MaxDim, {}, White, White)}

InitLabel ==
    /\ threshold = DefaultThreshold
    /\ minArea = DefaultMinArea
    /\ image \in LabelImages
    /\ outcome = "none"
    /\ result = NoResult
    /\ history = NoHistory
    /\ call = NoCall
    /\ ret = NoReturn
    /\ pass = NoPass
    /\ ui = NoUI

\* lines 15-29: the mask is built, seen, shapes and stack are empty
StartPass ==
    /\ pass = NoPass
    /\ outcome = "none"
    /\ ~Throws(image)
    /\ pass' = [phase |-> "scan",
                mask |-> MaskOf(image.width * image.height, image.data, threshold),
                idx |-> 0, seen |-> {}, fill |-> NoFill,
                points |-> <<>>, order |-> NoOrder, shapes |-> <<>>,
                measures |-> <<>>, found |-> <<>>, pushed |-> <<>>]
    /\ UNCHANGED <<threshold, minArea, image, outcome, result, history, call, ret, ui>>

\* lines 30-39: the scan looks at position idx and either starts a fill
\* there or moves on
ScanPixel ==
    /\ pass.phase = "scan"
    /\ pass.idx < image.width * image.height
    /\ IF pass.mask[pass.idx] = 1 /\ pass.idx \notin pass.seen
       THEN pass' = [pass EXCEPT
                        !.phase = "fill",
                        !.fill = NewFill(pass.idx, pass.idx % image.width,
                                         pass.idx \div image.width, pass.seen),
                        !.pushed = Append(@, pass.idx)]
       ELSE pass' = [pass EXCEPT !.idx = @ + 1]
    /\ UNCHANGED <<threshold, minArea, image, outcome, result, history, call, ret, ui>>

\* lines 40-65: one iteration of while (stack.length); it pops one index and
\* pushes the neighbours that pass the test, which end up on top of the stack
FillPixel ==
    /\ pass.phase = "fill"
    /\ pass.fill.stack # <<>>
    /\ LET f == FloodStep(pass.mask, image.width, image.height, pass.fill)
       IN  pass' = [pass EXCEPT
                       !.fill = f,
                       !.pushed = @ \o SubSeq(f.stack, Len(pass.fill.stack), Len(f.stack))]
    /\ UNCHANGED <<threshold, minArea, image, outcome, result, history, call, ret, ui>>

\* the component just filled, as the properties below look at it
Filled(f) == [pixels |-> f.pixels, area |-> f.area, boundingBox |-> BoxOf(f)]

\* lines 65-69 and 148-165: the stack is empty.  A component below minArea
\* is dropped and the scan goes on behind the seed; for any other the
\* boundary pixels of its bounding box are collected and orderBoundary
\* starts from the first of them
EndFill ==
    /\ pass.phase = "fill"
    /\ pass.fill.stack = <<>>
    /\ IF pass.fill.area >= minArea
       THEN LET points == BoundaryScan(pass.mask, image.width, image.height,
                                       pass.fill.minX, pass.fill.minY,
                                       pass.fill.maxX, pass.fill.maxY)
            IN  pass' = [pass EXCEPT
                            !.phase = "trace",
                            !.points = points,
                            !.order = IF Len(points) = 0
                                      THEN [used |-> {}, out |-> <<>>, done |-> TRUE]
                                      ELSE [used |-> {1}, out |-> <<points[1]>>,
                                            done |-> FALSE]]
       ELSE pass' = [pass EXCEPT
                        !.phase = "scan",
                        !.idx = @ + 1,
                        !.seen = pass.fill.seen,
                        !.fill = NoFill,
                        !.found = Append(@, Filled(pass.fill))]
    /\ UNCHANGED <<threshold, minArea, image, outcome, result, history, call, ret, ui>>

\* the loop of lines 179-196 has iterations left
Ordering == ~pass.order.done /\ Len(pass.order.out) < Len(pass.points)

\* lines 179-196: one iteration of the loop of orderBoundary
OrderPoint ==
    /\ pass.phase = "trace"
    /\ Ordering
    /\ pass' = [pass EXCEPT !.order = OrderStep(pass.points, pass.order)]
    /\ UNCHANGED <<threshold, minArea, image, outcome, result, history, call, ret, ui>>

\* lines 197 and 70-78: orderBoundary returns, the component is pushed on
\* shapes with its contour, and the scan goes on behind the seed
EndTrace ==
    /\ pass.phase = "trace"
    /\ ~Ordering
    /\ pass' = [pass EXCEPT
                   !.phase = "scan",
                   !.idx = @ + 1,
                   !.seen = pass.fill.seen,
                   !.fill = NoFill,
                   !.points = <<>>,
                   !.order = NoOrder,
                   !.shapes = Append(@, [pixels |-> pass.fill.pixels,
                                         contour |-> pass.order.out,
                                         area |-> pass.fill.area,
                                         boundingBox |-> BoxOf(pass.fill)]),
                   !.found = Append(@, Filled(pass.fill))]
    /\ UNCHANGED <<threshold, minArea, image, outcome, result, history, call, ret, ui>>

\* lines 89 and 98 for the components that step 3 analyses: the perimeter
\* of the contour and the circularity, the locals that decide the type
Measures(shapes) ==
    LET kept == Pick(shapes, {i \in 1..Len(shapes) : Analysed(shapes[i])})
    IN  [k \in 1..Len(kept) |->
            LET perimeter == polygonPerimeter(kept[k].contour)
            IN  [perimeter |-> perimeter,
                 circularity |-> Circularity(kept[k].area, perimeter)]]

\* lines 81-141: the scan is over; the kept components are analysed and the
\* call returns
EndPass ==
    /\ pass.phase = "scan"
    /\ pass.idx >= image.width * image.height
    /\ pass' = [pass EXCEPT !.phase = "done", !.measures = Measures(pass.shapes)]
    /\ outcome' = "returned"
    /\ \E t \in 0..MaxTime :
         result' = [shapes |-> AnalyseAll(pass.shapes), processingTime |-> t]
    /\ UNCHANGED <<threshold, minArea, image, history, call, ret, ui>>

\* the steps of the labeling pass, lines 15-79
LabelStep == StartPass \/ ScanPixel \/ FillPixel \/ EndFill \/ OrderPoint \/ EndTrace

NextLabel == LabelStep \/ EndPass

\* the call is synchronous and is not interrupted: an iteration of the
\* labeling pass that can be taken is taken
SpecLabel == InitLabel /\ [][NextLabel]_vars /\ WF_vars(LabelStep)

PassDone == pass.phase = "done"

\* the scan of lines 30-79 has reached the end of the image
ScanOver == pass.phase \in {"scan", "done"} /\ pass.idx >= image.width * image.height

\* the call taken apart returns what the call as a whole returns
PassAgreesWithCall ==
    PassDone => result.shapes = OutShapes(image, threshold, minArea)

\* the positions y * width + x of a list of points
PositionsOf(points, W) == {points[i].y * W + points[i].x : i \in 1..Len(points)}

\* the pixels of C with a 4-neighbour outside F or outside the image
OwnBoundary(F, C, W, H) ==
    {p \in C : Cardinality(Nbrs(p, W, H)) < 4 \/ Nbrs(p, W, H) \ F # {}}

\* C16: the contour traced for a kept component holds exactly the pixels of
\* that component that have a 4-neighbour which is background or outside
\* the image, each of them once, and no pixel of another component.
C16_ContourIsOwnBoundary ==
    pass.phase # "none" =>
        \A i \in 1..Len(pass.shapes) :
            LET s == pass.shapes[i]
                C == PositionsOf(s.pixels, image.width)
            IN  /\ Len(s.contour) = Cardinality(PositionsOf(s.contour, image.width))
                /\ PositionsOf(s.contour, image.width)
                     = OwnBoundary(Foreground(image, threshold), C,
                                   image.width, image.height)

\* the extent max - min of the coordinates cs, 1 where it is 0
ExtentOrOne(cs) == IF SetMax(cs) = SetMin(cs) THEN 1 ELSE SetMax(cs) - SetMin(cs)

\* the type the decision order gives for hull vertices vs and a circularity
\* c in 1/1000: |w / h - 1| < 0.12 is 100 * |w - h| < 12 * h
TypeByRule(vs, c) ==
    LET w == ExtentOrOne({vs[k].x : k \in 1..Len(vs)})
        h == ExtentOrOne({vs[k].y : k \in 1..Len(vs)})
    IN  CASE Len(vs) = 3 -> {"triangle"}
          [] Len(vs) = 4 /\ 100 * Abs(w - h) < 12 * h -> {"square"}
          [] Len(vs) = 4 /\ 100 * Abs(w - h) >= 12 * h -> {"rectangle"}
          [] Len(vs) \notin {3, 4} /\ c > 700 -> {"circle"}
          [] Len(vs) \notin {3, 4} /\ c <= 700 -> {"polygon"}

\* C17: the type of every returned shape is the one the fixed decision
\* order gives on its filtered hull (the vertices list): triangle exactly
\* for 3 vertices; for 4 vertices square if |w/h - 1| < 0.12 and rectangle
\* otherwise, w and h being the x- and y-extent of the vertices with 0
\* replaced by 1; for every other count circle if the circularity exceeds
\* 0.7 and polygon otherwise.  A shape of 3 or 4 vertices is no circle,
\* whatever its circularity.
C17_TypeFollowsDecisionOrder ==
    PassDone =>
        \A i \in 1..Len(result.shapes) :
            LET s == result.shapes[i]
            IN  /\ s.type \in TypeByRule(s.vertices, pass.measures[i].circularity)
                /\ s.type = "triangle" <=> Len(s.vertices) = 3
                /\ Len(s.vertices) \in {3, 4} => s.type # "circle"

\* a call returned a shape of 4 vertices whose circularity exceeds 0.7, as
\* a rectangle
C17_Witness ==
    /\ PassDone
    /\ \E i \in 1..Len(result.shapes) :
         /\ Len(result.shapes[i].vertices) = 4
         /\ pass.measures[i].circularity > 700
         /\ result.shapes[i].type = "rectangle"

\* no element occurs twice in s
NoRepeat(s) == Cardinality({s[i] : i \in 1..Len(s)}) = Len(s)

\* the pixel sets of the components filled so far
FoundSets == {PositionsOf(pass.found[k].pixels, image.width) : k \in 1..Len(pass.found)}

\* no index has been pushed on the fill stack twice
PushedOnce == pass.phase # "none" => NoRepeat(pass.pushed)

\* at the end of the pass the components filled are the maximal 4-connected
\* sets of foreground pixels, each filled once and each pixel listed once,
\* and every foreground pixel lies in exactly one of them
FoundIsPartition ==
    ScanOver =>
        LET F == Foreground(image, threshold)
        IN  /\ FoundSets = ComponentsOf(F, image.width, image.height)
            /\ Cardinality(FoundSets) = Len(pass.found)
            /\ \A k \in 1..Len(pass.found) : NoRepeat(pass.found[k].pixels)
            /\ \A p \in F : Cardinality({k \in 1..Len(pass.found) :
                                p \in PositionsOf(pass.found[k].pixels, image.width)}) = 1
            /\ {pass.pushed[i] : i \in 1..Len(pass.pushed)} = F

\* C18: the labeling pass partitions the foreground into its maximal
\* 4-connected components (pixels that touch only diagonally are not
\* joined), pushes no pixel on the fill stack twice, and comes to an end
\* for every image.
C18_LabelingPartitionsAndTerminates ==
    /\ [](PushedOnce /\ FoundIsPartition)
    /\ <>ScanOver

\* a pass has ended for an image with two components that touch at a corner
\* only, having pushed every foreground pixel
C18_Witness ==
    /\ PassDone
    /\ Len(pass.found) = 2
    /\ Len(pass.pushed) = Cardinality(Foreground(image, threshold))
    /\ \E p \in PositionsOf(pass.found[1].pixels, image.width),
          q \in PositionsOf(pass.found[2].pixels, image.width) :
          /\ Abs(XOf(p, image.width) - XOf(q, image.width)) = 1
          /\ Abs(YOf(p, image.width) - YOf(q, image.width)) = 1

\* the components of pass.shapes that step 3 analyses, one per returned shape
KeptComponents ==
    Pick(pass.shapes, {i \in 1..Len(pass.shapes) : Len(pass.shapes[i].contour) >= MinContour})

\* C19: every returned shape has as area the number of pixels of its
\* component, a maximal 4-connected set of foreground pixels, and as
\* boundingBox the tight extent of those pixels: x = min x, y = min y,
\* width = max x - min x + 1, height = max y - min y + 1.
C19_AreaAndBoxOfComponent ==
    PassDone =>
        /\ Len(result.shapes) = Len(KeptComponents)
        /\ \A i \in 1..Len(result.shapes) :
              LET C == PositionsOf(KeptComponents[i].pixels, image.width)
                  xs == {XOf(p, image.width) : p \in C}
                  ys == {YOf(p, image.width) : p \in C}
              IN  /\ C \in ComponentsOf(Foreground(image, threshold),
                                        image.width, image.height)
                  /\ result.shapes[i].area = Cardinality(C)
                  /\ result.shapes[i].boundingBox =
                        [x |-> SetMin(xs), y |-> SetMin(ys),
                         width |-> SetMax(xs) - SetMin(xs) + 1,
                         height |-> SetMax(ys) - SetMin(ys) + 1]

\* a call returned a shape for a component that does not fill its bounding
\* box: an L with a block attached to one arm
C19_Witness ==
    /\ PassDone
    /\ Len(pass.found) = 1
    /\ \E i \in 1..Len(result.shapes) :
         /\ result.shapes[i].area > minArea
         /\ result.shapes[i].area
               < result.shapes[i].boundingBox.width * result.shapes[i].boundingBox.height

(***************************************************************************)
(* The mask of lines 19-24.                                                *)
(***************************************************************************)

\* floor(0.299 R + 0.587 G + 0.114 B) of pixel p, in exact arithmetic
FloorOfWeightedSum(img, p) ==
    (299 * img.data[4 * p + 1] + 587 * img.data[4 * p + 2] + 114 * img.data[4 * p + 3])
        \div 1000

\* C20: a pixel is foreground in the mask exactly when
\* floor(0.299 R + 0.587 G + 0.114 B) is below the threshold, whatever its
\* alpha byte.
C20_ForegroundIsBelowThreshold ==
    pass.phase # "none" =>
        \A p \in Pixels(image) :
            pass.mask[p] = 1 <=> FloorOfWeightedSum(image, p) < threshold

(***************************************************************************)
(* SpecOrder: orderBoundary called on its own with every sequence of up to *)
(* MaxPts points of a small grid, repeated points included.                *)
(***************************************************************************)

InitOrder ==
    /\ threshold = DefaultThreshold
    /\ minArea = DefaultMinArea
    /\ image = NoImage
    /\ outcome = "none"
    /\ result = NoResult
    /\ history = NoHistory
    /\ \E p \in HullInputs : call = [fn |-> "orderBoundary", points |-> p]
    /\ ret = NoReturn
    /\ pass = NoPass
    /\ ui = NoUI

CallOrderBoundary ==
    /\ call.fn = "orderBoundary"
    /\ ~ret.returned
    /\ ret' = [returned |-> TRUE, value |-> orderBoundary(call.points)]
    /\ UNCHANGED <<threshold, minArea, image, outcome, result, history, call, pass, ui>>

NextOrder == CallOrderBoundary

SpecOrder == InitOrder /\ [][NextOrder]_vars

ReturnedOrder == call.fn = "orderBoundary" /\ ret.returned

\* how many of s[1..k] equal s[k]
CopiesUpTo(s, k) == Cardinality({i \in 1..k : s[i] = s[k]})

\* the input index that output position k comes from, copies of one point
\* being taken in input order: the index of the c-th copy of out[k] in
\* points, where out[k] is the c-th copy in out (0 if there is none)
FromIndex(points, out, k) ==
    LET c == CopiesUpTo(out, k)
        at == {i \in 1..Len(points) : points[i] = out[k] /\ CopiesUpTo(points, i) = c}
    IN  IF at = {} THEN 0 ELSE CHOOSE i \in at : TRUE

\* the input indices not yet output before position k
Unvisited(points, out, k) ==
    (1..Len(points)) \ {FromIndex(points, out, j) : j \in 1..(k - 1)}

\* C21: orderBoundary returns a permutation of its input (as many points,
\* each output position from an input index of its own), starting at the
\* first input point; every later point is an unvisited point of least
\* squared distance to the point output before it, and among the unvisited
\* points at that distance it is the one of least input index.
C21_NearestNeighbourPermutation ==
    ReturnedOrder =>
        LET points == call.points
            out == ret.value
        IN  /\ Len(out) = Len(points)
            /\ \A k \in 1..Len(out) : FromIndex(points, out, k) \in 1..Len(points)
            /\ \A j, k \in 1..Len(out) :
                  j # k => FromIndex(points, out, j) # FromIndex(points, out, k)
            /\ Len(out) > 0 => FromIndex(points, out, 1) = 1
            /\ \A k \in 2..Len(out) :
                  \A i \in Unvisited(points, out, k) :
                      \/ Dist2(out[k], out[k - 1]) < Dist2(points[i], out[k - 1])
                      \/ /\ Dist2(out[k], out[k - 1]) = Dist2(points[i], out[k - 1])
                         /\ FromIndex(points, out, k) <= i

\* a call on four distinct points whose result is not in input order and in
\* which a tie between two unvisited points was decided by input order
C21_Witness ==
    /\ ReturnedOrder
    /\ Len(call.points) = 4
    /\ Cardinality(PointsOf(call.points)) = 4
    /\ ret.value # call.points
    /\ \E k \in 2..4 :
          \E i \in Unvisited(call.points, ret.value, k) :
              /\ call.points[i] # ret.value[k]
              /\ Dist2(call.points[i], ret.value[k - 1])
                    = Dist2(ret.value[k], ret.value[k - 1])

(***************************************************************************)
(* douglasPeucker: what the result keeps of its input.                     *)
(***************************************************************************)

\* out is points at an increasing choice of indices that holds the first
\* and the last index
SubsequenceWithEnds(points, out) ==
    \E K \in SUBSET (1..Len(points)) :
        /\ Ends(points) \subseteq K
        /\ Len(out) = Cardinality(K)
        /\ \A k \in K : out[Cardinality({m \in K : m <= k})] = points[k]

\* C22: a call of douglasPeucker (epsilon >= 0, any input sequence) leaves
\* its input array as it was, and what it returns is a subsequence of the
\* input in the original order that holds the first and the last input
\* point.
C22_SubsequenceWithEndpoints ==
    [][(call.fn = "douglasPeucker" /\ ret'.returned) =>
          /\ call' = call
          /\ SubsequenceWithEnds(call.points, ret'.value)]_vars

\* a call with epsilon > 0 on four points, the first and the last equal,
\* that dropped one interior point and kept the other
C22_Witness ==
    /\ ReturnedDP
    /\ call.epsilon > 0
    /\ Len(call.points) = 4
    /\ call.points[1] = call.points[4]
    /\ Len(ret.value) = 3

(***************************************************************************)
(* SpecColinear: removeColinear called on its own, with the tolerance of   *)
(* 6 degrees that detectShapes passes, on every sequence of up to MaxPts   *)
(* points of a small grid.                                                 *)
(***************************************************************************)

InitColinear ==
    /\ threshold = DefaultThreshold
    /\ minArea = DefaultMinArea
    /\ image = NoImage
    /\ outcome = "none"
    /\ result = NoResult
    /\ history = NoHistory
    /\ \E p \in HullInputs : call = [fn |-> "removeColinear", points |-> p]
    /\ ret = NoReturn
    /\ pass = NoPass
    /\ ui = NoUI

CallRemoveColinear ==
    /\ call.fn = "removeColinear"
    /\ ~ret.returned
    /\ ret' = [returned |-> TRUE, value |-> removeColinear(call.points)]
    /\ UNCHANGED <<threshold, minArea, image, outcome, result, history, call, pass, ui>>

NextColinear == CallRemoveColinear

SpecColinear == InitColinear /\ [][NextColinear]_vars

ReturnedColinear == call.fn = "removeColinear" /\ ret.returned

\* out is points at an increasing choice of indices
SubsequenceOf(points, out) ==
    \E K \in SUBSET (1..Len(points)) :
        /\ Len(out) = Cardinality(K)
        /\ \A k \in K : out[Cardinality({m \in K : m <= k})] = points[k]

\* the indices of the closed polygon points whose vertex is not nearly
\* straight
Bends(points) ==
    LET n == Len(points)
    IN  {i \in 1..n : KeepsVertex(Vertex(points, i + n - 1), points[i],
                                  Vertex(points, i + 1))}

\* C23: removeColinear returns at least 3 vertices for an input of 3 or
\* more; an input of at most 3 vertices comes back unchanged, and so does
\* an input that has fewer than 3 vertices that are not nearly straight; the
\* result is always the input at an increasing choice of indices.
C23_NeverBelowThreeVertices ==
    ReturnedColinear =>
        /\ Len(call.points) >= 3 => Len(ret.value) >= 3
        /\ Len(call.points) <= 3 => ret.value = call.points
        /\ (Len(call.points) > 3 /\ Cardinality(Bends(call.points)) < 3)
              => ret.value = call.points
        /\ SubsequenceOf(call.points, ret.value)

\* a call on four vertices of which only two are bends, which came back
\* unfiltered
C23_Witness ==
    /\ ReturnedColinear
    /\ Len(call.points) = 4
    /\ Cardinality(Bends(call.points)) = 2
    /\ ret.value = call.points

\* a call on four vertices that dropped the one straight vertex
C23_Filtered ==
    /\ ReturnedColinear
    /\ Len(call.points) = 4
    /\ Len(ret.value) = 3

(***************************************************************************)
(* The center of a returned shape (line 122).                              *)
(***************************************************************************)

\* the sum of coord(p) over the pixels p of C, coord being XOf or YOf and
\* size the number of values it takes
CoordSum(C, W, size, coord(_, _)) ==
    LET weighted == [k \in 1..size |-> (k - 1) * Cardinality({p \in C : coord(p, W) = k - 1})]
    IN  SumRange(weighted, 1, size)

\* c is sum / n rounded to the nearest integer, a half going up
NearestHalfUp(c, sum, n) == 2 * n * c <= 2 * sum + n /\ 2 * sum + n < 2 * n * c + 2 * n

\* C24: the center of every returned shape is the mean of the coordinates
\* of all pixels of its component, each coordinate rounded to the nearest
\* integer with a half going up, and it lies inside the bounding box of the
\* shape.
C24_CenterIsPixelCentroid ==
    PassDone =>
        /\ Len(result.shapes) = Len(KeptComponents)
        /\ \A i \in 1..Len(result.shapes) :
              LET s == result.shapes[i]
                  C == PositionsOf(KeptComponents[i].pixels, image.width)
                  n == Cardinality(C)
              IN  /\ C \in ComponentsOf(Foreground(image, threshold),
                                        image.width, image.height)
                  /\ NearestHalfUp(s.center.x, CoordSum(C, image.width, image.width, XOf), n)
                  /\ NearestHalfUp(s.center.y, CoordSum(C, image.width, image.height, YOf), n)
                  /\ s.center.x >= s.boundingBox.x
                  /\ s.center.x < s.boundingBox.x + s.boundingBox.width
                  /\ s.center.y >= s.boundingBox.y
                  /\ s.center.y < s.boundingBox.y + s.boundingBox.height

\* a call returned a shape whose mean x is an exact half, rounded up, and a
\* shape whose center is more than half a pixel away from the centre of its
\* bounding box
C24_Witness ==
    /\ PassDone
    /\ \E i \in 1..Len(result.shapes) :
          LET C == PositionsOf(KeptComponents[i].pixels, image.width)
              sx == CoordSum(C, image.width, image.width, XOf)
          IN  2 * sx + Cardinality(C) = 2 * Cardinality(C) * result.shapes[i].center.x
    /\ \E i \in 1..Len(result.shapes) :
          LET s == result.shapes[i]
          IN  \/ Abs(2 * s.center.x - (2 * s.boundingBox.x + s.boundingBox.width - 1)) > 1
              \/ Abs(2 * s.center.y - (2 * s.boundingBox.y + s.boundingBox.height - 1)) > 1

(***************************************************************************)
(* douglasPeucker: how far a dropped point lies from what replaces it.     *)
(***************************************************************************)

\* the kept indices next to k on either side
KeptBefore(K, k) == SetMax({m \in K : m < k})
KeptAfter(K, k) == SetMin({m \in K : m > k})

\* the distance of pt from the segment a..b is at most epsilon: from a or b
\* when pt projects on the line before a or behind b, from the line
\* otherwise
WithinEpsilonOfSegment(pt, a, b, epsC) ==
    LET along == (pt.x - a.x) * (b.x - a.x) + (pt.y - a.y) * (b.y - a.y)
    IN  IF a = b \/ along <= 0 THEN Dist2(pt, a) * 10000 <= epsC * epsC
        ELSE IF along >= Dist2(a, b) THEN Dist2(pt, b) * 10000 <= epsC * epsC
        ELSE cross(a, b, pt) * cross(a, b, pt) * 10000 <= epsC * epsC * Dist2(a, b)

\* C25 as stated: between two consecutive kept points every input point
\* lies at most epsilon from the line through them (from the point when the
\* two coincide), and no dropped point lies more than epsilon from the
\* segment that replaces it.
C25_DroppedWithinEpsilonOfSegment ==
    ReturnedDP =>
        \A k \in (1..Len(call.points)) \ ret.keep :
            LET a == call.points[KeptBefore(ret.keep, k)]
                b == call.points[KeptAfter(ret.keep, k)]
            IN  /\ WithinEpsilon(call.points[k], a, b, call.epsilon)
                /\ WithinEpsilonOfSegment(call.points[k], a, b, call.epsilon)

\* C25, amended: between two consecutive kept points at input indices
\* i < j, every input point strictly between them lies at most epsilon from
\* the line through points i and j, or from point i when the two coincide.
C25_DroppedWithinEpsilonOfLine ==
    ReturnedDP =>
        \A k \in (1..Len(call.points)) \ ret.keep :
            WithinEpsilon(call.points[k], call.points[KeptBefore(ret.keep, k)],
                          call.points[KeptAfter(ret.keep, k)], call.epsilon)

\* a call with epsilon > 0 kept an interior point and dropped another that
\* lies exactly epsilon from the line through its kept neighbours
C25_Witness ==
    /\ ReturnedDP
    /\ call.epsilon > 0
    /\ Cardinality(ret.keep) > 2
    /\ \E k \in (1..Len(call.points)) \ ret.keep :
          LET a == call.points[KeptBefore(ret.keep, k)]
              b == call.points[KeptAfter(ret.keep, k)]
          IN  /\ a # b
              /\ WithinEpsilon(call.points[k], a, b, call.epsilon)
              /\ ~WithinEpsilon(call.points[k], a, b, call.epsilon - 1)

\* a call dropped a point that lies on the line through its kept
\* neighbours but outside the segment between them, more than epsilon away
C25_BeyondSegment ==
    /\ ReturnedDP
    /\ \E k \in (1..Len(call.points)) \ ret.keep :
          ~WithinEpsilonOfSegment(call.points[k], call.points[KeptBefore(ret.keep, k)],
                                  call.points[KeptAfter(ret.keep, k)], call.epsilon)

(***************************************************************************)
(* SpecUI: the ShapeDetection component of                                 *)
(* shape-detection-export/src/components/ShapeDetection.jsx.  ui holds its *)
(* state (image, processing, results, dragActive), the FileReaders and the *)
(* Image element whose event is still to come, and how many promises of    *)
(* the onload callback were rejected.  A file is known by a number; the    *)
(* files of Undecodable have an image type but no image data a browser can *)
(* decode.  The browser delivers the load event of a FileReader, and the   *)
(* load or the error event of an Image whose src was set; the component    *)
(* registers onload and nothing for error.                                 *)
(***************************************************************************)

MaxFiles == 3

Files == 1..MaxFiles

Undecodable == {MaxFiles}

NoFile == 0

\* no Image element is waiting for its load or error event
Idle == [state |-> "idle"]

InitUI ==
    /\ threshold = DefaultThreshold
    /\ minArea = DefaultMinArea
    /\ image = NoImage
    /\ outcome = "none"
    /\ result = NoResult
    /\ history = NoHistory
    /\ call = NoCall
    /\ ret = NoReturn
    /\ pass = NoPass
    /\ ui = [mounted |-> TRUE, image |-> NoFile, processing |-> FALSE,
             results |-> NoFile, dragActive |-> FALSE, reading |-> {},
             load |-> Idle, rejections |-> 0]

\* the canvas elements are rendered, and canvasRef.current set, only while
\* image is set (line 211)
CanvasMounted == ui.image # NoFile

\* the upload area is rendered only while no image is set (line 166)
UploadAreaShown == ui.mounted /\ ui.image = NoFile

\* handleFile, lines 44-56, for a file of an image type: a FileReader
\* starts reading it
handleFile(f) == [ui EXCEPT !.reading = @ \cup {f}]

\* handleDrag, lines 17-25
HandleDrag ==
    /\ UploadAreaShown
    /\ \E active \in BOOLEAN : ui' = [ui EXCEPT !.dragActive = active]
    /\ UNCHANGED <<threshold, minArea, image, outcome, result, history, call, ret, pass>>

\* handleDrop, lines 27-35
HandleDrop ==
    /\ UploadAreaShown
    /\ \E f \in Files \ ui.reading : ui' = [handleFile(f) EXCEPT !.dragActive = FALSE]
    /\ UNCHANGED <<threshold, minArea, image, outcome, result, history, call, ret, pass>>

\* handleChange, lines 37-42
HandleChange ==
    /\ UploadAreaShown
    /\ \E f \in Files \ ui.reading : ui' = handleFile(f)
    /\ UNCHANGED <<threshold, minArea, image, outcome, result, history, call, ret, pass>>

\* reader.onload, lines 51-54
ReaderLoads ==
    /\ \E f \in ui.reading :
         ui' = [ui EXCEPT !.image = f, !.results = NoFile, !.reading = @ \ {f}]
    /\ UNCHANGED <<threshold, minArea, image, outcome, result, history, call, ret, pass>>

\* the Clear button, lines 218-222
Clear ==
    /\ ui.mounted
    /\ ui.image # NoFile
    /\ ui' = [ui EXCEPT !.image = NoFile, !.results = NoFile]
    /\ UNCHANGED <<threshold, minArea, image, outcome, result, history, call, ret, pass>>

\* detectShapes, lines 58-92, from the Detect button, which is rendered
\* while image is set and disabled while processing (lines 243-245)
Detect ==
    /\ ui.mounted
    /\ ui.image # NoFile
    /\ ~ui.processing
    /\ ui' = [ui EXCEPT !.processing = TRUE, !.results = NoFile,
                        !.load = [state |-> "pending", src |-> ui.image]]
    /\ UNCHANGED <<threshold, minArea, image, outcome, result, history, call, ret, pass>>

\* img.onload, lines 67-87, for an image the browser decoded.  With the
\* canvas mounted it runs to its end; the continuation behind the await of
\* line 79 is a microtask, which no event handler comes between.  With the
\* canvas unmounted canvasRef.current is null and line 69 throws a
\* TypeError inside the async callback: its promise is rejected, nobody
\* holds it, and the try of line 64 has long been left.
ImageLoads ==
    /\ ui.load.state = "pending"
    /\ ui.load.src \notin Undecodable
    /\ IF CanvasMounted
       THEN ui' = [ui EXCEPT !.results = ui.load.src, !.processing = FALSE,
                             !.load = Idle]
       ELSE ui' = [ui EXCEPT !.load = Idle, !.rejections = Min(@ + 1, MaxFiles)]
    /\ UNCHANGED <<threshold, minArea, image, outcome, result, history, call, ret, pass>>

\* the error event of an image the browser cannot decode: img.onerror is
\* not set (lines 66-88), so no code of the component runs
ImageFails ==
    /\ ui.load.state = "pending"
    /\ ui.load.src \in Undecodable
    /\ ui' = [ui EXCEPT !.load = Idle]
    /\ UNCHANGED <<threshold, minArea, image, outcome, result, history, call, ret, pass>>

NextUI ==
    \/ HandleDrag
    \/ HandleDrop
    \/ HandleChange
    \/ ReaderLoads
    \/ Clear
    \/ Detect
    \/ ImageLoads
    \/ ImageFails

\* the browser delivers the event of every FileReader and of every Image in
\* flight; the user may stop acting at any time
SpecUI ==
    /\ InitUI
    /\ [][NextUI]_vars
    /\ WF_vars(ReaderLoads)
    /\ WF_vars(ImageLoads)
    /\ WF_vars(ImageFails)

\* C26: once the Detect handler has set processing to true, processing
\* eventually becomes false again, whether the detection succeeds, the
\* image fails to load, the onload callback throws or is rejected, or the
\* image is cleared while the detection is in flight.
C26_ProcessingEventuallyEnds == ui.processing ~> ~ui.processing

\* an onload that ran with the canvas mounted has set processing to false
SuccessEnds ==
    [][(ImageLoads /\ CanvasMounted) => ~ui'.processing]_vars

\* processing is true with no Image in flight: nothing is left to reset it
Stuck == ui.processing /\ ui.load.state = "idle"

\* once stuck, always stuck
StuckForGood == [][Stuck => Stuck']_vars
====
